---- MODULE Spec2Model ----
(***************************************************************************)
(* A model of github.com/qq1060656096/drugo.                               *)
(*                                                                         *)
(* Part 1: package config (src/config/manager.go): the Manager that merges *)
(* the YAML files of a directory into one tree, caches one handle per      *)
(* top-level name behind double-checked locking, reloads on Reset and on   *)
(* file events seen by a background watch loop, and runs reload callbacks. *)
(*                                                                         *)
(* Every critical section of the Manager's RWMutex is one step of the      *)
(* model; a method with two critical sections (Get) or a background loop   *)
(* (watchLoop / handleReload) is a sequence of such steps.                 *)
(***************************************************************************)
EXTENDS Naturals, Sequences, FiniteSets, TLC

(***************************************************************************)
(* Bounds of the model.                                                    *)
(***************************************************************************)
\* number of successful reloads explored (tree generations after the first)
MaxGen == 2
\* capacity of the pending file-event queue of the observer
MaxQueue == 2
\* number of OnReload registrations explored
MaxCallbacks == 2
\* number of observers the model lets Watch attach
MaxObservers == 2
MaxServices == 2

(***************************************************************************)
(* Values.                                                                 *)
(***************************************************************************)
\* client goroutines calling the Manager concurrently
Procs == {"p1", "p2"}

\* top-level keys (namespace names) used in files and in Get
Keys == {"x", "y"}

\* the content of a namespace's subtree; "none": key absent;
\* "scalar": a top-level value that is not a mapping (viper's Sub yields nil)
Vals == {"v1", "v2"}
NoVal == "none"
ScalarVal == "scalar"

\* paths are sequences of characters, so that filepath.Ext is computed
ConfigDir == <<"c">>
FnA == <<"a", ".", "y", "m", "l">>
FnB == <<"b", ".", "y", "a", "m", "l">>
FnC == <<"c", ".", "t", "x", "t">>
FnD == <<"d", ".", "y", "m", "l">>

\* the entries a directory listing can hold, in os.ReadDir's order (sorted by
\* file name)
AllEntries == <<FnA, FnB, FnC, FnD>>
FileNames == {AllEntries[i] : i \in 1..Len(AllEntries)}

\* a YAML mapping of top-level keys
EmptyMap == [k \in Keys |-> NoVal]
OneKey(k, v) == [EmptyMap EXCEPT ![k] = v]

\* what a directory entry can be
Absent == [kind |-> "absent", m |-> EmptyMap]
BadFile == [kind |-> "bad", m |-> EmptyMap]
SubDir == [kind |-> "dir", m |-> EmptyMap]
FileOf(m) == [kind |-> "file", m |-> m]

\* the orders in which Go may range over a map with keys Keys
KeyOrders == {<<"x", "y">>, <<"y", "x">>}

\* the sentinel errors of src/config/manager.go
ErrNotFound == "ErrNotFound"
ErrDirRead == "ErrDirRead"
ErrFileRead == "ErrFileRead"
ErrDuplicateKey == "ErrDuplicateKey"
NoErr == "nil"

IsNotFound(err) == err = ErrNotFound
IsDirRead(err) == err = ErrDirRead
IsFileRead(err) == err = ErrFileRead
IsDuplicateKey(err) == err = ErrDuplicateKey

(***************************************************************************)
(* filepath.Join and filepath.Ext, as used on entry and event names.       *)
(***************************************************************************)
Join(dir, name) == dir \o <<"/">> \o name

RECURSIVE ExtFrom(_, _)
ExtFrom(path, i) ==
    IF i < 1 \/ path[i] = "/" THEN <<>>
    ELSE IF path[i] = "." THEN SubSeq(path, i, Len(path))
    ELSE ExtFrom(path, i - 1)

Ext(path) == ExtFrom(path, Len(path))

AnyExt(ext) == TRUE
IsYamlExt(ext) == ext = <<".", "y", "m", "l">> \/ ext = <<".", "y", "a", "m", "l">>

(***************************************************************************)
(* The Merge Loader: loadConfigs and mergeFile.                            *)
(* A load result is [err, data]; data is the merged tree's top level.      *)
(***************************************************************************)
\* mergeFile's loop over the file's top-level keys, in the order ord
\* root.IsSet(name): an earlier file of this load set the key
NeverSet(data, name) == FALSE
IsSet(data, name) == data[name] # NoVal

RECURSIVE MergeKeys(_, _, _, _)
MergeKeys(data, m, ord, i) ==
    IF i > Len(ord) THEN [err |-> NoErr, data |-> data]
    ELSE LET name == ord[i] IN
         IF m[name] = NoVal THEN MergeKeys(data, m, ord, i + 1)
         ELSE IF IsSet(data, name) THEN [err |-> ErrDuplicateKey, data |-> data]
         ELSE IF m[name] = ScalarVal THEN [err |-> ErrFileRead, data |-> data]
         ELSE MergeKeys([data EXCEPT ![name] = m[name]], m, ord, i + 1)

mergeFileFirstKey(data, file, ord) ==
    IF file.kind = "bad" THEN [err |-> ErrFileRead, data |-> data]
    ELSE MergeKeys(data, file.m, SubSeq(ord, 1, 1), 1)
mergeFile(data, file, ord) ==
    IF file.kind = "bad" THEN [err |-> ErrFileRead, data |-> data]
    ELSE MergeKeys(data, file.m, ord, 1)

\* loadConfigs' loop over the directory entries, from entry i on
RECURSIVE LoadFrom(_, _, _, _)
LoadFrom(files, ords, data, i) ==
    IF i > Len(AllEntries) THEN [err |-> NoErr, data |-> data]
    ELSE LET name == AllEntries[i]
             f == files[name]
         IN  IF f.kind = "absent" THEN LoadFrom(files, ords, data, i + 1)
             ELSE IF f.kind = "dir" THEN LoadFrom(files, ords, data, i + 1)
             ELSE IF ~IsYamlExt(Ext(name)) THEN LoadFrom(files, ords, data, i + 1)
             ELSE LET r == mergeFile(data, f, ords[i])
                  IN  IF r.err # NoErr THEN [err |-> r.err, data |-> EmptyMap]
                      ELSE LoadFrom(files, ords, r.data, i + 1)

loadConfigsIgnoresDirError(d, ords) == LoadFrom(d.files, ords, EmptyMap, 1)
loadConfigs(d, ords) ==
    IF ~d.dirOK THEN [err |-> ErrDirRead, data |-> EmptyMap]
    ELSE LoadFrom(d.files, ords, EmptyMap, 1)

\* one map-iteration order per directory entry
OrderChoices == [1..Len(AllEntries) -> KeyOrders]

\* what a load of the directory d can return, over all iteration orders
LoadResults(d) == {loadConfigs(d, ords) : ords \in OrderChoices}


(***************************************************************************)
(* Handles (the *viper.Viper a Get returns) and the handle cache.          *)
(* A handle is identified by the tree it was taken from (gen), its name    *)
(* and the number of the Sub call that allocated it (seq).                 *)
(***************************************************************************)
NoHandle == [gen |-> 0, name |-> "nil", seq |-> 0, data |-> NoVal]
EmptyCache == [k \in Keys |-> NoHandle]

\* viper's Sub on the tree rt: nil when the key is not set
Sub(rt, name, seq) ==
    IF rt.data[name] = NoVal THEN NoHandle
    ELSE [gen |-> rt.gen, name |-> name, seq |-> seq, data |-> rt.data[name]]

\* v, ok := m.configs[name]
CacheHit(cfgs, name) == cfgs[name] # NoHandle

\* the second check of the double-checked locking, under the write lock
RecheckSkipped(cfgs, name) == FALSE
Recheck(cfgs, name) == CacheHit(cfgs, name)

\* the error Get wraps when Sub yields nil
MissingNoError(sub) == NoErr
MissingError(sub) == IF sub = NoHandle THEN ErrNotFound ELSE NoErr

\* what a Get returns: the handle and the error, stamped with the generation
\* of the tree at the moment of the return
GetResult(name, h, err, gen) == [name |-> name, h |-> h, err |-> err, gen |-> gen]
NoResult == GetResult("nil", NoHandle, NoErr, 0)

(***************************************************************************)
(* m.mu, a sync.RWMutex: one writer, or any number of readers.             *)
(***************************************************************************)
LoopName == "loop"
NoLock == [writer |-> "none", readers |-> {}]
RLockAnyway(m) == TRUE
CanRLock(m) == m.writer = "none"
CanLock(m) == m.writer = "none" /\ m.readers = {}
Lock(m, g) == [m EXCEPT !.writer = g]
Unlock(m, g) == [m EXCEPT !.writer = "none"]
RLock(m, g) == [m EXCEPT !.readers = @ \cup {g}]
RUnlock(m, g) == [m EXCEPT !.readers = @ \ {g}]
Holds(m, g) == m.writer = g \/ g \in m.readers

VARIABLES
    disk,             \* the configuration directory: [dirOK, files]
    root,             \* m.root: [gen, data]
    configs,          \* m.configs: the handle cache
    built,            \* handles constructed from the current tree, per name
    getPc,            \* per client: "idle", or "slow" between Get's two locks
    getArg,           \* per client: the name of the Get in progress
    getRet,           \* per client: what its last completed Get returned
    last,             \* what the last Reset / Watch / StopWatch call returned
    watcher,          \* m.watcher: 0 is nil, else the observer's number
    observers,        \* the observers attached so far: "open" or "closed"
    watcherDone,      \* m.watcherDone: [id, closed]; id 0 is nil
    watcherStopOnce,  \* m.watcherStopOnce: "fresh", "running", "done"
    loops,            \* number of watchLoop goroutines started
    loopPc,           \* where the watchLoop goroutine is
    events,           \* the observer's pending file events
    reloadCallbacks,  \* m.reloadCallbacks
    snap,             \* handleReload's copy of the callback list
    idx,              \* handleReload's position in snap
    passLog,          \* the callbacks invoked in the current / last pass
    passBase,         \* the tree generation when the pass's event was received
    passRegs,         \* the callbacks registered when the pass's Reset returned
    reloadErr,        \* what handleReload's last m.Reset() returned
    panicked,         \* a goroutine panicked (close of a closed channel)
    mu,               \* m.mu: [writer, readers], the goroutines holding it
    listRet,          \* what the last List / Root call read and returned
    must,             \* each client's MustGet call: its position and outcome
    defaultManager,   \* per package: the global default Manager, or nil
    defaultManagerOnce, \* per package: the sync.Once guarding defaultManager
    made,             \* per package: the Managers MustNewManager has built
    initPc,           \* each client's position inside Init
    initRet,          \* how each client's last Init call ended
    defRet,           \* what each client's last Default() returned
    services,         \* the container's services, in registration order
    mainPc,           \* the kernel method the main goroutine is inside
    bootIdx,          \* Boot: the service the loop is at
    bootLog,          \* Boot: the Boot calls made, with what each returned
    bootRet,          \* Boot: what it returned
    runPc,            \* Run: its position
    runIdx,           \* Run: the service its loop is at
    runBy,            \* Run: called directly or by Serve's goroutine
    runners,          \* Run: per service, the state of its Run goroutine
    runLog,           \* Run: the Runners that returned, with what each returned
    groupErr,         \* Run: the errgroup's first error
    groupCancelled,   \* Run: the errgroup's context was cancelled
    runCancelled,     \* Run: the context it was called with was cancelled
    runRet,           \* Run: what it returned
    closeIdx,         \* Shutdown: the service the loop is at
    closeLog,         \* Shutdown: the Close calls made, with what each returned
    shutRet,          \* Shutdown: what it returned
    servePc,          \* Serve: its position
    quit,             \* Serve: a signal is waiting in the channel quit
    errChan,          \* Serve: what waits in the channel errChan
    sigOrder,         \* Serve: whether the signal came before Run returned
    took,             \* Serve: the case its select took
    runErr,           \* Serve: its local runErr
    serveRet,         \* Serve: what it returned
    servicesMap,      \* Container.services: name -> instance
    servicesIds,      \* Container.servicesIds: the names in registration order
    containerMu,      \* Container.mu: "free" or the goroutine inside Bind
    bindPc,           \* per goroutine: the Bind it is inside
    bindLog,          \* the Bind calls in the order they took the lock
    got,              \* what the last Get / Services / Names returned
    loggers,          \* log.Manager.loggers (m.levels holds the same keys)
    logPc,            \* per goroutine: "idle", or the name its Get missed
    logRet,           \* per goroutine: what its last log.Manager.Get returned
    minted,           \* the zap loggers NewZapLogger has constructed
    evicted,          \* per name: how often its cache entry was evicted
    logLast,          \* what the last Close / Remove returned
    registryFs,       \* Registry.fs: the registered functions, by kind
    setups,           \* per goroutine: its Setup call, its copy and its pass
    trees,            \* the trees loadConfigs has built, by generation
    kept              \* the tree a client got from Root() and kept

cacheVars == <<root, configs, built>>
clientVars == <<getPc, getArg, getRet>>
watchVars == <<watcher, observers, watcherDone, watcherStopOnce, loops>>
loopVars == <<loopPc, snap, idx, passLog, passBase, passRegs, reloadErr>>
lockVars == <<mu, listRet>>
\* one config.Manager, its directory, its watcher and its callers
managerVars == <<disk, cacheVars, clientVars, last, watchVars, loopVars, events,
                 reloadCallbacks, panicked, lockVars>>
mustVars == <<must>>
defaultVars == <<defaultManager, defaultManagerOnce, made, initPc, initRet, defRet>>
\* the state outside one config.Manager's fields and its callers' Get calls
bootVars == <<bootIdx, bootLog, bootRet>>
runVars == <<runPc, runIdx, runBy, runners, runLog, groupErr, groupCancelled,
             runCancelled, runRet>>
shutVars == <<closeIdx, closeLog, shutRet>>
serveVars == <<servePc, quit, errChan, sigOrder, took, runErr, serveRet>>
lifeVars == <<services, mainPc, bootVars, runVars, shutVars, serveVars>>
containerVars == <<servicesMap, servicesIds, containerMu, bindPc, bindLog, got>>
\* the container, the log manager and the route registry
logVars == <<loggers, logPc, logRet, minted, evicted, logLast>>
routerVars == <<registryFs, setups>>
heapVars == <<trees, kept>>
extraVars == <<containerVars, logVars, routerVars, heapVars>>
outerVars == <<mustVars, defaultVars, lifeVars, extraVars>>
vars == <<disk, cacheVars, clientVars, last, watchVars, loopVars, events,
          reloadCallbacks, panicked, lockVars, outerVars>>

(***************************************************************************)
(* The configuration directory the Manager is constructed over.            *)
(***************************************************************************)
InitFiles ==
    [f \in FileNames |->
        IF f = FnA THEN FileOf(OneKey("x", "v1"))
        ELSE IF f = FnC THEN FileOf(OneKey("x", "v2"))
        ELSE IF f = FnD THEN SubDir
        ELSE Absent]

InitDisk == [dirOK |-> TRUE, files |-> InitFiles]

NilDone == [id |-> 0, closed |-> FALSE]
NoCall == [op |-> "none", err |-> NoErr, same |-> TRUE]
NoList == [op |-> "none", names |-> <<>>, gen |-> 0, cached |-> {},
           locked |-> TRUE, race |-> FALSE]

\* no MustGet call yet
NoMust == [pc |-> "idle", name |-> "nil", v |-> NoHandle, panic |-> NoErr,
           of |-> NoResult]

\* the packages with a global default Manager
Pkgs == {"config", "log"}

\* the nil *Manager; no Init call; no Default call
NilManager == [id |-> 0, arg |-> "nil"]
NoInit == [pkg |-> "nil", arg |-> "nil", ran |-> FALSE, panic |-> NoErr]
NoDefault == [pkg |-> "nil", m |-> NilManager, once |-> "fresh"]

\* var defaultManager *Manager; var defaultManagerOnce sync.Once
DefaultInit ==
    /\ defaultManager = [pkg \in Pkgs |-> NilManager]
    /\ defaultManagerOnce = [pkg \in Pkgs |-> "fresh"]
    /\ made = [pkg \in Pkgs |-> 0]
    /\ initPc = [p \in Procs |-> NoInit]
    /\ initRet = [p \in Procs |-> NoInit]
    /\ defRet = [p \in Procs |-> NoDefault]

\* what a kernel method returns: the error of service i, nil, or nothing yet
ErrOf(i) == i
Nil == ErrOf(0)
NoReturn == ErrOf(0 - 1)

\* a Drugo over the services svcs, none of its methods called
Built(svcs) ==
    /\ services = svcs
    /\ mainPc = "idle"
    /\ bootIdx = 0
    /\ bootLog = <<>>
    /\ bootRet = NoReturn
    /\ runPc = "idle"
    /\ runIdx = 0
    /\ runBy = "none"
    /\ runners = [i \in 1..Len(svcs) |-> "none"]
    /\ runLog = <<>>
    /\ groupErr = Nil
    /\ groupCancelled = FALSE
    /\ runCancelled = FALSE
    /\ runRet = NoReturn
    /\ closeIdx = 0
    /\ closeLog = <<>>
    /\ shutRet = NoReturn
    /\ servePc = "none"
    /\ quit = FALSE
    /\ errChan = NoReturn
    /\ sigOrder = "none"
    /\ took = "none"
    /\ runErr = Nil
    /\ serveRet = NoReturn

MustInit == must = [p \in Procs |-> NoMust]

\* no Bind in progress, nothing read yet
NoBind == [name |-> "nil", service |-> "nil"]
NoRead == [op |-> "none"]

\* NewContainer(): an empty map, no names
NewContainer ==
    /\ servicesMap = [n \in {"a", "b", "c"} |-> "absent"]
    /\ servicesIds = <<>>
    /\ containerMu = "free"
    /\ bindPc = [p \in Procs |-> NoBind]
    /\ bindLog = <<>>
    /\ got = NoRead

\* the names loggers are asked for; the first is the empty name
BizNames == {"", "app", "db"}
NilLogger == ErrOf(0)
NoGet == [name |-> "nil", logger |-> NilLogger, err |-> "none", epoch |-> ErrOf(0)]

\* log.NewManager(cfg) with a cfg that passes Validate: both maps empty
NewLogManager ==
    /\ loggers = [n \in BizNames |-> NilLogger]
    /\ logPc = [p \in Procs |-> "idle"]
    /\ logRet = [p \in Procs |-> NoGet]
    /\ minted = ErrOf(0)
    /\ evicted = [n \in BizNames |-> ErrOf(0)]
    /\ logLast = "none"

\* no Setup called yet
NoSetup == [pc |-> "idle", base |-> ErrOf(0), fs |-> <<>>, ran |-> <<>>]

\* router.New(): nothing registered
NewRegistry ==
    /\ registryFs = <<>>
    /\ setups = [p \in Procs |-> NoSetup]

\* the memory the trees live in: the tree NewManager loaded, nothing kept
NoTree == [gen |-> ErrOf(0), data |-> EmptyMap]
HeapInit ==
    /\ trees = [g \in 1..(MaxGen + 1) |-> IF g = root.gen THEN root.data ELSE EmptyMap]
    /\ kept = NoTree

ExtraInit == NewContainer /\ NewLogManager /\ NewRegistry /\ HeapInit

\* nothing has happened outside the Manager
OuterInit ==
    /\ MustInit
    /\ DefaultInit
    /\ Built(<<>>)
    /\ ExtraInit

\* NewManager(configDir): the first load succeeded; nothing cached, not watching
Init ==
    /\ disk = InitDisk
    /\ \E r \in LoadResults(InitDisk) :
              /\ r.err = NoErr
              /\ root = [gen |-> 1, data |-> r.data]
    /\ configs = EmptyCache
    /\ built = [k \in Keys |-> 0]
    /\ getPc = [p \in Procs |-> "idle"]
    /\ getArg = [p \in Procs |-> "nil"]
    /\ getRet = [p \in Procs |-> NoResult]
    /\ last = NoCall
    /\ watcher = 0
    /\ observers = <<>>
    /\ watcherDone = NilDone
    /\ watcherStopOnce = "fresh"
    /\ loops = 0
    /\ loopPc = "none"
    /\ events = <<>>
    /\ reloadCallbacks = <<>>
    /\ snap = <<>>
    /\ idx = 0
    /\ passLog = <<>>
    /\ passBase = 0
    /\ passRegs = 0
    /\ reloadErr = NoErr
    /\ panicked = FALSE
    /\ mu = NoLock
    /\ listRet = NoList
    /\ OuterInit

(***************************************************************************)
(* Manager.Get: the fast path under the read lock, then the slow path      *)
(* under the write lock.                                                   *)
(***************************************************************************)
GetFast(p, name) ==
    /\ ~panicked
    /\ UNCHANGED outerVars
    /\ CanRLock(mu)
    /\ getPc[p] = "idle"
    /\ IF CacheHit(configs, name)
       THEN /\ getRet' = [getRet EXCEPT ![p] =
                             GetResult(name, configs[name], NoErr, root.gen)]
            /\ UNCHANGED <<getPc, getArg>>
       ELSE /\ getPc' = [getPc EXCEPT ![p] = "slow"]
            /\ getArg' = [getArg EXCEPT ![p] = name]
            /\ UNCHANGED getRet
    /\ UNCHANGED <<disk, cacheVars, last, watchVars, loopVars, events, reloadCallbacks, panicked>>
    /\ UNCHANGED lockVars

GetSlow(p) ==
    /\ ~panicked
    /\ UNCHANGED outerVars
    /\ CanLock(mu)
    /\ getPc[p] = "slow"
    /\ LET name == getArg[p]
           sub == Sub(root, name, built[name] + 1)
           err == MissingError(sub)
       IN  IF Recheck(configs, name)
           THEN /\ getRet' = [getRet EXCEPT ![p] =
                                 GetResult(name, configs[name], NoErr, root.gen)]
                /\ UNCHANGED <<configs, built>>
           ELSE IF err # NoErr
           THEN /\ getRet' = [getRet EXCEPT ![p] =
                                 GetResult(name, NoHandle, err, root.gen)]
                /\ UNCHANGED <<configs, built>>
           ELSE /\ configs' = [configs EXCEPT ![name] = sub]
                /\ built' = IF sub = NoHandle THEN built
                            ELSE [built EXCEPT ![name] = @ + 1]
                /\ getRet' = [getRet EXCEPT ![p] =
                                 GetResult(name, sub, NoErr, root.gen)]
    /\ getPc' = [getPc EXCEPT ![p] = "idle"]
    /\ getArg' = [getArg EXCEPT ![p] = "nil"]
    /\ UNCHANGED <<disk, root, last, watchVars, loopVars, events,
                   reloadCallbacks, panicked>>
    /\ UNCHANGED lockVars

(***************************************************************************)
(* Manager.Reset: load, then swap the tree and clear the cache, all under  *)
(* the write lock.  res is what loadConfigs returned.                      *)
(***************************************************************************)
ResetKeepsCache(rt, cfgs, res) ==
    IF res.err # NoErr THEN [root |-> rt, configs |-> cfgs, err |-> res.err]
    ELSE [root |-> [gen |-> rt.gen + 1, data |-> res.data],
          configs |-> cfgs, err |-> NoErr]

ResetSwapsFirst(rt, cfgs, res) ==
    [root |-> [gen |-> rt.gen + 1, data |-> res.data],
     configs |-> IF res.err # NoErr THEN cfgs ELSE EmptyCache,
     err |-> res.err]

ResetResult(rt, cfgs, res) ==
    IF res.err # NoErr THEN [root |-> rt, configs |-> cfgs, err |-> res.err]
    ELSE [root |-> [gen |-> rt.gen + 1, data |-> res.data],
          configs |-> EmptyCache, err |-> NoErr]

\* the model explores MaxGen successful reloads
CanReload(res) == res.err # NoErr \/ root.gen <= MaxGen

Reset ==
    /\ ~panicked
    /\ UNCHANGED outerVars
    /\ CanLock(mu)
    /\ \E res \in LoadResults(disk) :
          LET r == ResetResult(root, configs, res)
          IN  /\ CanReload(res)
              /\ root' = r.root
              /\ configs' = r.configs
              /\ built' = IF r.root.gen # root.gen THEN [k \in Keys |-> 0] ELSE built
              /\ last' = [op |-> "Reset", err |-> r.err,
                          same |-> (r.root = root /\ r.configs = configs)]
    /\ UNCHANGED <<disk, clientVars, watchVars, loopVars, events,
                   reloadCallbacks, panicked>>
    /\ UNCHANGED lockVars

\* a client's Reset() seen with its lock: m.mu.Lock() ...
ResetLock(p) ==
    /\ ~panicked
    /\ UNCHANGED outerVars
    /\ getPc[p] = "idle"
    /\ CanLock(mu)
    /\ mu' = Lock(mu, p)
    /\ getPc' = [getPc EXCEPT ![p] = "reset"]
    /\ UNCHANGED <<disk, cacheVars, getArg, getRet, last, watchVars, loopVars,
                   events, reloadCallbacks, panicked, listRet>>

\* ... the load and the swap, and the deferred m.mu.Unlock()
ResetBody(p) ==
    /\ ~panicked
    /\ UNCHANGED outerVars
    /\ getPc[p] = "reset"
    /\ mu.writer = p
    /\ \E res \in LoadResults(disk) :
          LET r == ResetResult(root, configs, res)
          IN  /\ CanReload(res)
              /\ root' = r.root
              /\ configs' = r.configs
              /\ built' = IF r.root.gen # root.gen THEN [k \in Keys |-> 0] ELSE built
              /\ last' = [op |-> "Reset", err |-> r.err,
                          same |-> (r.root = root /\ r.configs = configs)]
    /\ mu' = Unlock(mu, p)
    /\ getPc' = [getPc EXCEPT ![p] = "idle"]
    /\ UNCHANGED <<disk, getArg, getRet, watchVars, loopVars, events,
                   reloadCallbacks, panicked, listRet>>

(***************************************************************************)
(* Manager.List and Manager.Root: both read m.root without taking m.mu.    *)
(***************************************************************************)
\* sort.Strings compares byte-wise; the names of the model are one byte long
Code == [x |-> 120, y |-> 121]
Less(a, b) == Code[a] < Code[b]

RECURSIVE Insert(_, _)
Insert(sorted, name) ==
    IF sorted = <<>> THEN <<name>>
    ELSE IF Less(name, Head(sorted)) THEN <<name>> \o sorted
    ELSE <<Head(sorted)>> \o Insert(Tail(sorted), name)

RECURSIVE SortStrings(_)
Unsorted(names) == names
SortStrings(names) ==
    IF names = <<>> THEN <<>>
    ELSE Insert(SortStrings(Tail(names)), Head(names))

\* settings := m.root.AllSettings(): the map List ranges over
Listed(rt, cfgs) == rt.data

\* for name := range settings { names = append(names, name) }, the map
\* iterated in the order ord
RangeNames(settings, ord) == SelectSeq(ord, LAMBDA k : settings[k] # NoVal)

ListNames(rt, cfgs, ord) == SortStrings(RangeNames(Listed(rt, cfgs), ord))

\* the names the cache holds handles for
CachedNames(cfgs) == {k \in Keys : CacheHit(cfgs, k)}

List(p) ==
    /\ ~panicked
    /\ UNCHANGED outerVars
    /\ getPc[p] = "idle"
    /\ \E ord \in KeyOrders :
          listRet' = [op |-> "List", names |-> ListNames(root, configs, ord),
                      gen |-> root.gen, cached |-> CachedNames(configs),
                      locked |-> Holds(mu, p), race |-> mu.writer # "none"]
    /\ UNCHANGED <<disk, cacheVars, clientVars, last, watchVars, loopVars,
                   events, reloadCallbacks, panicked, mu>>

RootCall(p) ==
    /\ ~panicked
    /\ UNCHANGED outerVars
    /\ getPc[p] = "idle"
    /\ listRet' = [op |-> "Root", names |-> <<>>, gen |-> root.gen,
                   cached |-> CachedNames(configs),
                   locked |-> Holds(mu, p), race |-> mu.writer # "none"]
    /\ UNCHANGED <<disk, cacheVars, clientVars, last, watchVars, loopVars,
                   events, reloadCallbacks, panicked, mu>>


(***************************************************************************)
(* Manager.OnReload and the reload callbacks.                              *)
(* A callback is user code; the model has one that returns nil and one     *)
(* that returns an error.                                                  *)
(***************************************************************************)
Callbacks == {"cbOk", "cbErr"}
CallbackError == "callback error"
CallbackReturn(cb) == IF cb = "cbErr" THEN CallbackError ELSE NoErr

\* a callback that registers another: cbReg calls m.OnReload(cbOk) while it
\* runs (as long as the list has room for it)
Registrars == {"cbOk", "cbReg"}
Registers(cb, cbs) ==
    IF cb = "cbReg" /\ Len(cbs) < MaxCallbacks THEN <<"cbOk">> ELSE <<>>

OnReload(cb) ==
    /\ ~panicked
    /\ UNCHANGED outerVars
    /\ CanLock(mu)
    /\ Len(reloadCallbacks) < MaxCallbacks
    /\ reloadCallbacks' = Append(reloadCallbacks, cb)
    /\ UNCHANGED <<disk, cacheVars, clientVars, last, watchVars, loopVars,
                   events, panicked>>
    /\ UNCHANGED lockVars

(***************************************************************************)
(* The observer (fsnotify.Watcher) and the edits of the directory.         *)
(***************************************************************************)
\* the observer m.watcher points to is attached and not closed
ObserverOpen == watcher # 0 /\ observers[watcher] = "open"

\* the operation fsnotify reports for a change of an entry
OpOf(old, new) ==
    IF new.kind = "absent" THEN {"Remove"}
    ELSE IF old.kind = "absent" THEN {"Create"}
    ELSE {"Write"}

\* the directory changes: entry f becomes st; an open observer queues the event
EditFile(f, st) ==
    /\ ~panicked
    /\ UNCHANGED outerVars
    /\ disk.dirOK
    /\ disk.files[f] # st
    /\ ObserverOpen => Len(events) < MaxQueue
    /\ disk' = [disk EXCEPT !.files[f] = st]
    /\ events' = IF ObserverOpen
                 THEN Append(events, [name |-> Join(ConfigDir, f),
                                      op |-> OpOf(disk.files[f], st)])
                 ELSE events
    /\ UNCHANGED <<cacheVars, clientVars, last, watchVars, loopVars,
                   reloadCallbacks, panicked>>
    /\ UNCHANGED lockVars

\* the directory becomes unreadable, or readable again
SetDirOK(b) ==
    /\ ~panicked
    /\ UNCHANGED outerVars
    /\ disk.dirOK # b
    /\ disk' = [disk EXCEPT !.dirOK = b]
    /\ UNCHANGED <<cacheVars, clientVars, last, watchVars, loopVars, events,
                   reloadCallbacks, panicked>>
    /\ UNCHANGED lockVars

\* entry f is rewritten with the content it has: an event, no change
TouchFile(f) ==
    /\ ~panicked
    /\ UNCHANGED outerVars
    /\ disk.dirOK
    /\ disk.files[f].kind \notin {"absent", "dir"}
    /\ ObserverOpen
    /\ Len(events) < MaxQueue
    /\ events' = Append(events, [name |-> Join(ConfigDir, f), op |-> {"Write"}])
    /\ UNCHANGED <<disk, cacheVars, clientVars, last, watchVars, loopVars,
                   reloadCallbacks, panicked>>
    /\ UNCHANGED lockVars

(***************************************************************************)
(* Manager.Watch, under the write lock.                                    *)
(***************************************************************************)
ErrNewWatcher == "config: failed to create watcher"
ErrWatchDir == "config: failed to watch directory"

\* if m.watcher != nil { return nil }
NeverWatching(w) == FALSE
WatchingUntilStopped(w) == w # 0 /\ observers[w] = "open"
AlreadyWatching(w) == w # 0

\* newOK: fsnotify.NewWatcher succeeded
Watch(newOK) ==
    /\ ~panicked
    /\ UNCHANGED outerVars
    /\ CanLock(mu)
    /\ IF AlreadyWatching(watcher)
       THEN /\ last' = [op |-> "Watch", err |-> NoErr, same |-> TRUE]
            /\ UNCHANGED <<watchVars, loopVars, events>>
       ELSE IF ~newOK
       THEN /\ last' = [op |-> "Watch", err |-> ErrNewWatcher, same |-> TRUE]
            /\ UNCHANGED <<watchVars, loopVars, events>>
       ELSE IF ~disk.dirOK
       THEN /\ last' = [op |-> "Watch", err |-> ErrWatchDir, same |-> TRUE]
            /\ UNCHANGED <<watchVars, loopVars, events>>
       ELSE /\ Len(observers) < MaxObservers
            /\ observers' = Append(observers, "open")
            /\ watcher' = Len(observers) + 1
            /\ watcherDone' = [id |-> Len(observers) + 1, closed |-> FALSE]
            /\ loops' = loops + 1
            /\ loopPc' = "select"
            /\ events' = <<>>
            /\ last' = [op |-> "Watch", err |-> NoErr, same |-> FALSE]
            /\ UNCHANGED <<watcherStopOnce, snap, idx, passLog, passBase, passRegs,
                           reloadErr>>
    /\ UNCHANGED <<disk, cacheVars, clientVars, reloadCallbacks, panicked>>
    /\ UNCHANGED lockVars

(***************************************************************************)
(* Manager.StopWatch: watcherStopOnce.Do(body).                            *)
(***************************************************************************)
\* sync.Once runs the function of the first Do only
OnceIgnored(once) == once # "running"
OnceFresh(once) == once = "fresh"

\* a caller enters Do and is the one to run the body
StopWatchEnter ==
    /\ ~panicked
    /\ UNCHANGED outerVars
    /\ OnceFresh(watcherStopOnce)
    /\ watcherStopOnce' = "running"
    /\ UNCHANGED <<disk, cacheVars, clientVars, last, watcher, observers,
                   watcherDone, loops, loopVars, events, reloadCallbacks,
                   panicked>>
    /\ UNCHANGED lockVars

\* the body, under the write lock: close the observer and the done channel
\* (run by the caller that entered Do, here a client and not a callback)
StopWatchBody ==
    /\ ~panicked
    /\ UNCHANGED outerVars
    /\ CanLock(mu)
    /\ watcherStopOnce = "running"
    /\ ~(loopPc = "incall" /\ idx \in DOMAIN snap /\ snap[idx] = "cbStop")
    /\ watcherStopOnce' = "done"
    /\ IF watcher # 0
       THEN /\ observers' = [observers EXCEPT ![watcher] = "closed"]
            /\ events' = <<>>
       ELSE UNCHANGED <<observers, events>>
    /\ IF watcherDone.id # 0
       THEN /\ panicked' = watcherDone.closed
            /\ watcherDone' = [watcherDone EXCEPT !.closed = TRUE]
       ELSE UNCHANGED <<watcherDone, panicked>>
    /\ last' = [op |-> "StopWatch", err |-> NoErr,
                same |-> (watcher = 0 /\ watcherDone.id = 0)]
    /\ UNCHANGED <<disk, cacheVars, clientVars, watcher, loops, loopVars,
                   reloadCallbacks>>
    /\ UNCHANGED lockVars

\* a caller whose Do finds the Once used returns at once
StopWatchAgain ==
    /\ ~panicked
    /\ UNCHANGED outerVars
    /\ watcherStopOnce = "done"
    /\ ~OnceFresh(watcherStopOnce)
    /\ last' = [op |-> "StopWatch", err |-> NoErr, same |-> TRUE]
    /\ UNCHANGED <<disk, cacheVars, clientVars, watchVars, loopVars, events, reloadCallbacks, panicked>>
    /\ UNCHANGED lockVars


(***************************************************************************)
(* Manager.watchLoop and Manager.handleReload: the background goroutine.   *)
(* loopPc: "none" (not started), "select" (waiting in the select),         *)
(* "reset" (in handleReload, before m.Reset()), "snapshot" (before the     *)
(* copy of the callback list), "call" (before callbacks[idx]), "incall"    *)
(* (callbacks[idx] is between the two critical sections of the call it     *)
(* makes on the Manager), "done" (handleReload is about to return),         *)
(* "exited".                                                               *)
(***************************************************************************)
\* event.Op&(fsnotify.Write|fsnotify.Create) != 0 and a YAML extension
AnyOp(ev) == IsYamlExt(Ext(ev.name))
CreateOnly(ev) ==
    /\ ev.op \cap {"Create"} # {}
    /\ IsYamlExt(Ext(ev.name))
Qualifies(ev) ==
    /\ ev.op \cap {"Write", "Create"} # {}
    /\ IsYamlExt(Ext(ev.name))

\* case event, ok := <-m.watcher.Events, with ok true
LoopEvent ==
    /\ ~panicked
    /\ UNCHANGED outerVars
    /\ loopPc = "select"
    /\ ObserverOpen
    /\ events # <<>>
    /\ events' = Tail(events)
    /\ IF Qualifies(Head(events))
       THEN /\ loopPc' = "reset"
            /\ passBase' = root.gen
       ELSE UNCHANGED <<loopPc, passBase>>
    /\ UNCHANGED <<disk, cacheVars, clientVars, last, watchVars, snap, idx,
                   passLog, passRegs, reloadErr, reloadCallbacks, panicked>>
    /\ UNCHANGED lockVars

\* case err, ok := <-m.watcher.Errors, with ok true: the observer reports an
\* error of its own, the loop prints it and goes back to the select
LoopError ==
    /\ ~panicked
    /\ UNCHANGED outerVars
    /\ loopPc = "select"
    /\ ObserverOpen
    /\ UNCHANGED vars

\* the observer's channels are closed (ok false), or watcherDone is closed
LoopExit ==
    /\ ~panicked
    /\ UNCHANGED outerVars
    /\ loopPc = "select"
    /\ \/ watcher # 0 /\ observers[watcher] = "closed"
       \/ watcherDone.id # 0 /\ watcherDone.closed
    /\ loopPc' = "exited"
    /\ UNCHANGED <<disk, cacheVars, clientVars, last, watchVars, snap, idx,
                   passLog, passBase, passRegs, reloadErr, events,
                   reloadCallbacks, panicked>>
    /\ UNCHANGED lockVars

\* handleReload after m.Reset() returned err: return, or go on to the callbacks
CallbacksAnyway(err) == "snapshot"
AfterReset(err) == IF err # NoErr THEN "select" ELSE "snapshot"

\* handleReload: if err := m.Reset(); err != nil { print; return }
LoopReset ==
    /\ ~panicked
    /\ UNCHANGED outerVars
    /\ CanLock(mu)
    /\ loopPc = "reset"
    /\ \E res \in LoadResults(disk) :
          LET r == ResetResult(root, configs, res)
          IN  /\ CanReload(res)
              /\ root' = r.root
              /\ configs' = r.configs
              /\ built' = IF r.root.gen # root.gen THEN [k \in Keys |-> 0] ELSE built
              /\ loopPc' = AfterReset(r.err)
              /\ reloadErr' = r.err
              /\ passRegs' = IF r.err # NoErr THEN 0 ELSE Len(reloadCallbacks)
              /\ passBase' = IF r.err # NoErr THEN 0 ELSE passBase
    /\ UNCHANGED <<disk, clientVars, last, watchVars, snap, idx, passLog,
                   events, reloadCallbacks, panicked>>
    /\ UNCHANGED lockVars

\* callbacks := copy of m.reloadCallbacks, under the read lock
SnapshotDeduplicated(cbs) ==
    LET F[i \in 0..Len(cbs)] ==
            IF i = 0 THEN <<>>
            ELSE IF \E j \in 1..Len(F[i - 1]) : F[i - 1][j] = cbs[i]
                 THEN F[i - 1]
                 ELSE Append(F[i - 1], cbs[i])
    IN  F[Len(cbs)]
SnapshotReversed(cbs) == [i \in 1..Len(cbs) |-> cbs[Len(cbs) + 1 - i]]
Snapshot(cbs) == cbs

\* m.mu.RUnlock() right after the copy, before any callback is called
SnapshotHoldsLock(m) == m
SnapshotUnlock(m) == RUnlock(m, LoopName)

LoopSnapshot ==
    /\ ~panicked
    /\ UNCHANGED outerVars
    /\ CanRLock(mu)
    /\ loopPc = "snapshot"
    /\ snap' = Snapshot(reloadCallbacks)
    /\ idx' = 1
    /\ passLog' = <<>>
    /\ loopPc' = IF snap' = <<>> THEN "done" ELSE "call"
    /\ mu' = SnapshotUnlock(RLock(mu, LoopName))
    /\ UNCHANGED <<disk, cacheVars, clientVars, last, watchVars, passBase,
                   passRegs, reloadErr, events, reloadCallbacks, panicked,
                   listRet>>

\* for _, callback := range callbacks: the index after a callback returned err
StopOnError(i, err, n) == IF err # NoErr THEN n + 1 ELSE i + 1
NextCallback(i, err, n) == i + 1

\* for _, callback := range callbacks: the list the loop ranges over
LiveList(copied, cbs) == cbs
PassList(copied, cbs) == copied

\* callback(m): the callback runs against the Manager as it is now
\* the calls a callback makes on the Manager that is invoking it:
\* m.Get("x") (m.MustGet takes the same path), m.Reset(), m.OnReload(cbOk),
\* m.Watch() and m.StopWatch(), each taking m.mu as the method does
Reentrant == {"cbGet", "cbReset", "cbReg", "cbWatch", "cbStop"}

\* the callback's call has a single critical section, or returns after its
\* first: Get found the name under the read lock (if ok { return v, nil }),
\* watcherStopOnce.Do found the Once used
ReturnsAtOnce(cb) ==
    IF cb = "cbGet" THEN CacheHit(configs, "x")
    ELSE IF cb = "cbStop" THEN ~OnceFresh(watcherStopOnce)
    ELSE TRUE

\* the first critical section of the call: for Get the lookup under the read
\* lock, for StopWatch the entry of watcherStopOnce.Do (which waits while
\* another caller runs the body)
Reenter(cb) ==
    IF cb = "cbGet"
    THEN /\ CanRLock(mu)
         /\ UNCHANGED <<cacheVars, reloadCallbacks, observers, watcherDone,
                        watcherStopOnce, events>>
    ELSE IF cb = "cbReset"
    THEN /\ CanLock(mu)
         /\ \E res \in LoadResults(disk) :
               LET r == ResetResult(root, configs, res)
               IN  /\ CanReload(res)
                   /\ root' = r.root
                   /\ configs' = r.configs
                   /\ built' = IF r.root.gen # root.gen
                               THEN [k \in Keys |-> 0] ELSE built
         /\ UNCHANGED <<reloadCallbacks, observers, watcherDone,
                        watcherStopOnce, events>>
    ELSE IF cb = "cbReg"
    THEN /\ CanLock(mu)
         /\ reloadCallbacks' = reloadCallbacks \o Registers(cb, reloadCallbacks)
         /\ UNCHANGED <<cacheVars, observers, watcherDone, watcherStopOnce,
                        events>>
    ELSE IF cb = "cbWatch"
    THEN /\ CanLock(mu)
         /\ AlreadyWatching(watcher)
         /\ UNCHANGED <<cacheVars, reloadCallbacks, observers, watcherDone,
                        watcherStopOnce, events>>
    ELSE IF cb = "cbStop"
    THEN /\ watcherStopOnce # "running"
         /\ watcherStopOnce' = IF OnceFresh(watcherStopOnce) THEN "running"
                               ELSE watcherStopOnce
         /\ UNCHANGED <<cacheVars, reloadCallbacks, observers, watcherDone,
                        events>>
    ELSE UNCHANGED <<cacheVars, reloadCallbacks, observers, watcherDone,
                     watcherStopOnce, events>>

\* the second critical section of the call, under the write lock: for Get
\* the recheck, Sub and the store; for StopWatch the body of the Once
ReenterSlow(cb) ==
    IF cb = "cbGet"
    THEN /\ CanLock(mu)
         /\ LET sub == Sub(root, "x", built["x"] + 1)
            IN  IF Recheck(configs, "x") \/ MissingError(sub) # NoErr
                THEN UNCHANGED <<configs, built>>
                ELSE /\ configs' = [configs EXCEPT !["x"] = sub]
                     /\ built' = [built EXCEPT !["x"] = @ + 1]
         /\ UNCHANGED <<root, reloadCallbacks, observers, watcherDone,
                        watcherStopOnce, events>>
    ELSE /\ cb = "cbStop"
         /\ CanLock(mu)
         /\ watcherStopOnce = "running"
         /\ watcherStopOnce' = "done"
         /\ IF watcher # 0
            THEN /\ observers' = [observers EXCEPT ![watcher] = "closed"]
                 /\ events' = <<>>
            ELSE UNCHANGED <<observers, events>>
         /\ IF watcherDone.id # 0
            THEN watcherDone' = [watcherDone EXCEPT !.closed = TRUE]
            ELSE UNCHANGED watcherDone
         /\ UNCHANGED <<cacheVars, reloadCallbacks>>

\* one step of callbacks[idx]: a call with two critical sections takes two
\* steps, and other goroutines run between them
LoopCall ==
    /\ ~panicked
    /\ UNCHANGED outerVars
    /\ loopPc \in {"call", "incall"}
    /\ LET list == PassList(snap, reloadCallbacks)
           cb == list[idx]
           err == CallbackReturn(cb)
           next == NextCallback(idx, err, Len(list))
       IN  IF loopPc = "call" /\ ~ReturnsAtOnce(cb)
           THEN /\ Reenter(cb)
                /\ loopPc' = "incall"
                /\ UNCHANGED <<passLog, idx>>
           ELSE /\ IF loopPc = "call" THEN Reenter(cb) ELSE ReenterSlow(cb)
                /\ passLog' = Append(passLog, [cb |-> cb, gen |-> root.gen, err |-> err])
                /\ idx' = next
                /\ loopPc' = IF next > Len(PassList(snap, reloadCallbacks'))
                             THEN "done" ELSE "call"
    /\ UNCHANGED <<disk, clientVars, last, watcher, loops, snap, passBase,
                   passRegs, reloadErr, panicked, listRet>>
    /\ UNCHANGED mu

\* handleReload returns: its locals are gone, the loop is back in the select
LoopReturn ==
    /\ ~panicked
    /\ UNCHANGED outerVars
    /\ loopPc = "done"
    /\ loopPc' = "select"
    /\ snap' = <<>>
    /\ idx' = 0
    /\ passLog' = <<>>
    /\ passBase' = 0
    /\ passRegs' = 0
    /\ UNCHANGED <<disk, cacheVars, clientVars, last, watchVars, events,
                   reloadErr, reloadCallbacks, panicked>>
    /\ UNCHANGED lockVars

(***************************************************************************)
(* Specifications.                                                         *)
(***************************************************************************)
\* what the clients write into the directory
CacheEdits ==
    {<<FnA, FileOf(OneKey("x", "v1"))>>,
     <<FnA, FileOf(OneKey("x", "v2"))>>,
     <<FnA, BadFile>>,
     <<FnB, Absent>>,
     <<FnB, FileOf(OneKey("y", "v1"))>>,
     <<FnB, FileOf([OneKey("y", ScalarVal) EXCEPT !["x"] = "v2"])>>}

\* the namespace cache: concurrent Get and Reset over a changing directory
Next ==
    \/ \E p \in Procs, name \in Keys : GetFast(p, name)
    \/ \E p \in Procs : GetSlow(p)
    \/ Reset
    \/ \E e \in CacheEdits : EditFile(e[1], e[2])
    \/ \E b \in BOOLEAN : SetDirOK(b)

Spec == Init /\ [][Next]_vars


\* what is written into the directory while it is watched
WatchEdits ==
    {<<FnA, FileOf(OneKey("x", "v1"))>>,
     <<FnA, FileOf(OneKey("x", "v2"))>>,
     <<FnA, BadFile>>,
     <<FnB, Absent>>,
     <<FnB, FileOf(OneKey("y", "v1"))>>}

\* the watcher's life cycle: Watch and StopWatch in any order and number,
\* file events of every kind, and the background loop reloading on them
NextWatch ==
    \/ \E newOK \in BOOLEAN : Watch(newOK)
    \/ StopWatchEnter
    \/ StopWatchBody
    \/ StopWatchAgain
    \/ \E e \in WatchEdits : EditFile(e[1], e[2])
    \/ \E b \in BOOLEAN : SetDirOK(b)
    \/ TouchFile(FnC)
    \/ LoopEvent
    \/ LoopError
    \/ LoopExit
    \/ LoopReset
    \/ LoopSnapshot
    \/ LoopReturn

SpecWatch == Init /\ [][NextWatch]_vars

\* what is written into the directory while callbacks are registered
ReloadEdits ==
    {<<FnA, FileOf(OneKey("x", "v1"))>>,
     <<FnA, FileOf(OneKey("x", "v2"))>>,
     <<FnA, BadFile>>}

\* the client goroutine of the reload specification
Reader == "p1"

\* the reload pass: callbacks are registered at any time, a client reads
\* through Get, and the background loop reloads and runs the callbacks
NextReload ==
    \/ Watch(TRUE)
    \/ \E cb \in Callbacks : OnReload(cb)
    \/ \E e \in ReloadEdits : EditFile(e[1], e[2])
    \/ LoopEvent
    \/ LoopReset
    \/ LoopSnapshot
    \/ LoopCall
    \/ LoopReturn
    \/ \E name \in Keys : GetFast(Reader, name)
    \/ GetSlow(Reader)

SpecReload == Init /\ [][NextReload]_vars

\* valid contents written over the YAML file of the directory
RoundEdits ==
    {<<FnA, FileOf(OneKey("x", "v1"))>>,
     <<FnA, FileOf(OneKey("x", "v2"))>>}

\* reload attempts the loop still has before it: queued events, and the one
\* it has taken and not yet reloaded for
Pending == Len(events) + (IF loopPc = "reset" THEN 1 ELSE 0)

\* a YAML file is rewritten with valid content while the directory is
\* watched (no more rewrites than the generations explored leave room for)
Rewrite(f, st) ==
    /\ ObserverOpen
    /\ root.gen + Pending <= MaxGen
    /\ EditFile(f, st)

\* one step of the watchLoop goroutine
LoopStep ==
    \/ LoopEvent
    \/ LoopReset
    \/ LoopSnapshot
    \/ LoopCall
    \/ LoopReturn

\* the hot-reload round trip: callbacks are registered, the directory is
\* watched, a file is rewritten, the loop reloads, a client reads
NextRound ==
    \/ Watch(TRUE)
    \/ \E cb \in Callbacks : OnReload(cb)
    \/ \E e \in RoundEdits : Rewrite(e[1], e[2])
    \/ LoopStep
    \/ \E name \in Keys : GetFast(Reader, name)
    \/ GetSlow(Reader)

\* the Go scheduler runs the watchLoop goroutine whenever it can take a step
SpecRound == Init /\ [][NextRound]_vars /\ WF_vars(LoopStep)

\* registration during a pass: callbacks are registered by other goroutines
\* at any time and by a callback while the loop runs it
NextRegister ==
    \/ Watch(TRUE)
    \/ \E cb \in Registrars : OnReload(cb)
    \/ \E e \in ReloadEdits : EditFile(e[1], e[2])
    \/ LoopEvent
    \/ LoopReset
    \/ LoopSnapshot
    \/ LoopCall
    \/ LoopReturn

SpecRegister == Init /\ [][NextRegister]_vars

\* what is written into the directory while clients list the names
AccessEdits ==
    {<<FnA, FileOf(OneKey("x", "v1"))>>,
     <<FnA, Absent>>,
     <<FnB, Absent>>,
     <<FnB, FileOf(OneKey("y", "v1"))>>}

\* the goroutine that calls Reset() in the access specification
Resetter == "p2"

\* a client reading through Get, List and Root while another resets
NextAccess ==
    \/ \E name \in Keys : GetFast(Reader, name)
    \/ GetSlow(Reader)
    \/ ResetLock(Resetter)
    \/ ResetBody(Resetter)
    \/ List(Reader)
    \/ RootCall(Reader)
    \/ \E e \in AccessEdits : EditFile(e[1], e[2])

SpecAccess == Init /\ [][NextAccess]_vars

\* the reloads the callbacks of the list perform themselves, once per pass
NResets(cbs) == Len(SelectSeq(cbs, LAMBDA cb : cb = "cbReset"))

\* callbacks are registered before the directory is watched
RegisterReentrant(cb) ==
    /\ watcher = 0
    /\ OnReload(cb)

\* a YAML file is rewritten while the loop waits in its select (no more
\* rewrites than the generations explored leave room for)
ReentryRewrite(f, st) ==
    /\ loopPc = "select"
    /\ events = <<>>
    /\ root.gen + NResets(reloadCallbacks) <= MaxGen
    /\ Rewrite(f, st)

\* one step of the watchLoop goroutine, its return included
ReentryStep ==
    \/ LoopStep
    \/ LoopExit

\* callbacks that call back into the Manager
NextReentry ==
    \/ Watch(TRUE)
    \/ \E cb \in Reentrant : RegisterReentrant(cb)
    \/ \E e \in RoundEdits : ReentryRewrite(e[1], e[2])
    \/ ReentryStep
    \/ GetFast(Reader, "x")
    \/ GetSlow(Reader)

SpecReentry == Init /\ [][NextReentry]_vars /\ WF_vars(ReentryStep)

\* the contents an entry of a directory to construct over can have
LoadContents ==
    {Absent, SubDir, BadFile,
     FileOf(OneKey("x", "v1")),
     FileOf(OneKey("y", "v1")),
     FileOf([OneKey("y", ScalarVal) EXCEPT !["x"] = "v2"])}

\* the directories NewManager is called on: every assignment of contents
\* to the four entries, and a directory that cannot be read
LoadDirs ==
    {[dirOK |-> TRUE, files |-> fs] : fs \in [FileNames -> LoadContents]}
        \cup {[dirOK |-> FALSE, files |-> InitFiles]}

\* no Manager yet: NewManager has not been called
NoRoot == [gen |-> 0, data |-> EmptyMap]

\* the state before NewManager is called on the directory d
Unbuilt(d) ==
    /\ disk = d
    /\ root = NoRoot
    /\ configs = EmptyCache
    /\ built = [k \in Keys |-> 0]
    /\ getPc = [p \in Procs |-> "idle"]
    /\ getArg = [p \in Procs |-> "nil"]
    /\ getRet = [p \in Procs |-> NoResult]
    /\ last = NoCall
    /\ watcher = 0
    /\ observers = <<>>
    /\ watcherDone = NilDone
    /\ watcherStopOnce = "fresh"
    /\ loops = 0
    /\ loopPc = "none"
    /\ events = <<>>
    /\ reloadCallbacks = <<>>
    /\ snap = <<>>
    /\ idx = 0
    /\ passLog = <<>>
    /\ passBase = 0
    /\ passRegs = 0
    /\ reloadErr = NoErr
    /\ panicked = FALSE
    /\ mu = NoLock
    /\ listRet = NoList

InitLoad == \E d \in LoadDirs : Unbuilt(d) /\ OuterInit

\* NewManager(configDir): load; on an error return (nil, err), else the
\* Manager over the loaded tree with an empty cache
NewManager ==
    /\ root = NoRoot
    /\ UNCHANGED outerVars
    /\ last = NoCall
    /\ \E res \in LoadResults(disk) :
          /\ root' = IF res.err # NoErr THEN NoRoot
                     ELSE [gen |-> 1, data |-> res.data]
          /\ last' = [op |-> "NewManager", err |-> res.err, same |-> FALSE]
    /\ configs' = EmptyCache
    /\ UNCHANGED <<disk, built, clientVars, watchVars, loopVars, events,
                   reloadCallbacks, panicked, lockVars>>

\* NewManager returned a Manager
Constructed == root # NoRoot

\* construction over any directory, then reads of the new Manager
NextLoad ==
    \/ NewManager
    \/ Constructed /\ \E name \in Keys : GetFast(Reader, name)
    \/ Constructed /\ GetSlow(Reader)
    \/ Constructed /\ List(Reader)

SpecLoad == InitLoad /\ [][NextLoad]_vars

\* ---- loading one directory again and again ----

\* files for the repeated load: none, one namespace, two namespaces
TwiceContents ==
    {Absent,
     FileOf(OneKey("x", "v1")),
     FileOf(OneKey("y", "v1")),
     FileOf([OneKey("x", "v2") EXCEPT !["y"] = "v2"])}

\* the directories loaded repeatedly: every assignment of those files
TwiceDirs == {[dirOK |-> TRUE, files |-> fs] : fs \in [FileNames -> TwiceContents]}

InitTwice == \E d \in TwiceDirs : Unbuilt(d) /\ OuterInit

\* NewManager, then Reset()s and Gets, the directory never edited
NextTwice ==
    \/ NewManager
    \/ Constructed /\ Reset
    \/ Constructed /\ \E name \in Keys : GetFast(Reader, name)
    \/ Constructed /\ GetSlow(Reader)

SpecTwice == InitTwice /\ [][NextTwice]_vars

\* ---- events the watchLoop ignores ----

\* the permissions of entry f change: an open observer queues a Chmod event
ChmodFile(f) ==
    /\ ~panicked
    /\ UNCHANGED outerVars
    /\ disk.dirOK
    /\ disk.files[f].kind \notin {"absent", "dir"}
    /\ ObserverOpen
    /\ Len(events) < MaxQueue
    /\ events' = Append(events, [name |-> Join(ConfigDir, f), op |-> {"Chmod"}])
    /\ UNCHANGED <<disk, cacheVars, clientVars, last, watchVars, loopVars,
                   reloadCallbacks, panicked, lockVars>>

\* what happens in the watched directory: the YAML file is rewritten,
\* deleted and created again, the text file is rewritten and deleted
FilterEdits ==
    {<<FnA, FileOf(OneKey("x", "v2"))>>,
     <<FnA, Absent>>,
     <<FnC, FileOf(OneKey("y", "v1"))>>,
     <<FnC, Absent>>}

\* an edit of the directory while it is watched
Disturb(f, st) ==
    /\ ObserverOpen
    /\ EditFile(f, st)

\* a watched directory with a registered callback, and events of every kind
NextFilter ==
    \/ Watch(TRUE)
    \/ OnReload("cbOk")
    \/ \E e \in FilterEdits : Disturb(e[1], e[2])
    \/ \E f \in {FnA, FnC} : ChmodFile(f)
    \/ LoopEvent
    \/ LoopReset
    \/ LoopSnapshot
    \/ LoopCall
    \/ LoopReturn

SpecFilter == Init /\ [][NextFilter]_vars

\* ---- Manager.MustGet ----

\* the wrapper's own work on what m.Get returned: panic(err) or return v
MustGetSwallows(res) == [v |-> res.h, panic |-> NoErr]
MustGetOutcome(res) ==
    IF res.err # NoErr THEN [v |-> NoHandle, panic |-> res.err]
    ELSE [v |-> res.h, panic |-> NoErr]

\* MustGet(name) is entered: its first statement is the call m.Get(name)
MustGetCall(p, name) ==
    /\ ~panicked
    /\ UNCHANGED <<defaultVars, lifeVars, extraVars>>
    /\ must[p].pc \in {"idle", "done"}
    /\ getPc[p] = "idle"
    /\ must' = [must EXCEPT ![p] = [NoMust EXCEPT !.pc = "get", !.name = name]]
    /\ getRet' = [getRet EXCEPT ![p] = NoResult]
    /\ UNCHANGED <<disk, cacheVars, getPc, getArg, last, watchVars, loopVars,
                   events, reloadCallbacks, panicked, lockVars>>

\* the m.Get inside MustGet: the same two paths as any Get
MustGetFast(p) ==
    /\ must[p].pc = "get"
    /\ getRet[p] = NoResult
    /\ GetFast(p, must[p].name)

MustGetSlow(p) ==
    /\ must[p].pc = "get"
    /\ GetSlow(p)

\* m.Get has returned (v, err): if err != nil { panic(err) }; return v
MustGetReturn(p) ==
    /\ ~panicked
    /\ UNCHANGED <<defaultVars, lifeVars, extraVars>>
    /\ must[p].pc = "get"
    /\ getPc[p] = "idle"
    /\ getRet[p] # NoResult
    /\ LET out == MustGetOutcome(getRet[p])
       IN  /\ must' = [must EXCEPT ![p] =
                          [pc |-> IF out.panic # NoErr THEN "panicked" ELSE "done",
                           name |-> @.name, v |-> out.v, panic |-> out.panic,
                           of |-> getRet[p]]]
           /\ panicked' = (out.panic # NoErr)
    /\ UNCHANGED <<disk, cacheVars, clientVars, last, watchVars, loopVars,
                   events, reloadCallbacks, lockVars>>

\* two clients calling MustGet for a present and a missing namespace, and
\* Reset()s of the directory between their steps
NextMust ==
    \/ \E p \in Procs, name \in Keys : MustGetCall(p, name)
    \/ \E p \in Procs : MustGetFast(p)
    \/ \E p \in Procs : MustGetSlow(p)
    \/ \E p \in Procs : MustGetReturn(p)
    \/ Reset

SpecMust == Init /\ [][NextMust]_vars

(***************************************************************************)
(* The global default Manager of package config and of package log:        *)
(* Init(arg) is defaultManagerOnce.Do(func() { defaultManager =            *)
(* MustNewManager(arg) }), Default() returns defaultManager.               *)
(***************************************************************************)
\* the arguments Init is called with: two good ones and a bad one
InitArgs == {"a", "b", "bad"}

\* the directory config.Init's argument names
DirOf(arg) ==
    IF arg = "a" THEN InitDisk
    ELSE IF arg = "b"
    THEN [dirOK |-> TRUE,
          files |-> [f \in FileNames |->
                        IF f = FnB THEN FileOf(OneKey("y", "v1")) ELSE Absent]]
    ELSE [dirOK |-> FALSE, files |-> InitFiles]

\* the log.Config log.Init's argument stands for
LogConfigOf(arg) ==
    [Dir |-> IF arg = "bad" THEN "" ELSE arg,
     Level |-> IF arg = "a" THEN <<"i", "n", "f", "o">>
               ELSE <<"I", "n", "F", "o">>,
     Format |-> IF arg = "a" THEN "json" ELSE "console",
     MaxSize |-> 0, MaxBackups |-> 0, MaxAge |-> 0]

\* the errors of log.Config.Validate
ErrEmptyLogDir == "ErrEmptyLogDir"
ErrInvalidConfigValue == "ErrInvalidConfigValue"
ErrInvalidLogLevel == "ErrInvalidLogLevel"
ErrInvalidLogFormat == "ErrInvalidLogFormat"

\* a level text is the sequence of its characters; "" is <<>>
EmptyText == <<>>

\* the level names of zapcore, as Level.unmarshalText spells them: each in
\* lower case and in upper case
ZapLevels ==
    {<<"d", "e", "b", "u", "g">>,
     <<"i", "n", "f", "o">>,
     <<"w", "a", "r", "n">>,
     <<"e", "r", "r", "o", "r">>,
     <<"d", "p", "a", "n", "i", "c">>,
     <<"p", "a", "n", "i", "c">>,
     <<"f", "a", "t", "a", "l">>}
UpperLevels ==
    {<<"D", "E", "B", "U", "G">>,
     <<"I", "N", "F", "O">>,
     <<"W", "A", "R", "N">>,
     <<"E", "R", "R", "O", "R">>,
     <<"D", "P", "A", "N", "I", "C">>,
     <<"P", "A", "N", "I", "C">>,
     <<"F", "A", "T", "A", "L">>}
LogFormats == {"json", "console", "text", "standard"}

\* the lower-case letter of each upper-case letter
Lowered ==
    [A |-> "a", B |-> "b", C |-> "c", D |-> "d", E |-> "e", F |-> "f", G |-> "g",
     H |-> "h", I |-> "i", J |-> "j", K |-> "k", L |-> "l", M |-> "m", N |-> "n",
     O |-> "o", P |-> "p", Q |-> "q", R |-> "r", S |-> "s", T |-> "t", U |-> "u",
     V |-> "v", W |-> "w", X |-> "x", Y |-> "y", Z |-> "z"]

\* bytes.ToLower: every upper-case letter of the text is mapped, every other
\* character is kept
ToLower(text) ==
    [i \in DOMAIN text |->
        IF text[i] \in DOMAIN Lowered THEN Lowered[text[i]] ELSE text[i]]

\* zapcore.Level.unmarshalText: the switch over the exact spellings, the
\* empty text standing for the info level
UnmarshalText(text) == text \in ZapLevels \cup UpperLevels \cup {EmptyText}

\* zap.ParseAtomicLevel(text) returns no error: the text as given is a
\* level name, or it is one once lower-cased
ParseAtomicLevel(text) == UnmarshalText(text) \/ UnmarshalText(ToLower(text))

\* log.Config.Validate
Validate(c) ==
    IF c.Dir = "" THEN ErrEmptyLogDir
    ELSE IF c.MaxSize < 0 \/ c.MaxBackups < 0 \/ c.MaxAge < 0
    THEN ErrInvalidConfigValue
    ELSE IF c.Level # EmptyText /\ ~ParseAtomicLevel(c.Level)
    THEN ErrInvalidLogLevel
    ELSE IF c.Format # "" /\ c.Format \notin LogFormats THEN ErrInvalidLogFormat
    ELSE NoErr

\* the errors NewManager(arg) of the package can return (NoErr: a Manager)
NewManagerErrs(pkg, arg) ==
    IF pkg = "config" THEN {res.err : res \in LoadResults(DirOf(arg))}
    ELSE {Validate(LogConfigOf(arg))}

\* sync.Once: Do runs f only while the Once has not been used
OnceAlwaysRuns(once) == FALSE
OnceUsed(once) == once = "done"

\* Init(arg) enters defaultManagerOnce.Do: with the Once used it returns at
\* once, otherwise it starts f (a Do in progress makes other callers wait)
InitEnter(p, pkg, arg) ==
    /\ initPc[p] = NoInit
    /\ defaultManagerOnce[pkg] # "running"
    /\ IF OnceUsed(defaultManagerOnce[pkg])
       THEN /\ initRet' = [initRet EXCEPT ![p] =
                              [pkg |-> pkg, arg |-> arg, ran |-> FALSE, panic |-> NoErr]]
            /\ UNCHANGED <<defaultManagerOnce, initPc>>
       ELSE /\ defaultManagerOnce' = [defaultManagerOnce EXCEPT ![pkg] = "running"]
            /\ initPc' = [initPc EXCEPT ![p] =
                             [pkg |-> pkg, arg |-> arg, ran |-> TRUE, panic |-> NoErr]]
            /\ UNCHANGED initRet
    /\ UNCHANGED <<defaultManager, made, defRet>>
    /\ UNCHANGED <<managerVars, mustVars, lifeVars, extraVars>>

\* f: defaultManager = MustNewManager(arg).  A panic leaves defaultManager
\* nil and the Once used, and reaches Init's caller (who recovers it)
InitBody(p) ==
    /\ initPc[p] # NoInit
    /\ LET pkg == initPc[p].pkg
           arg == initPc[p].arg
       IN  \E err \in NewManagerErrs(pkg, arg) :
              /\ IF err # NoErr
                 THEN UNCHANGED <<defaultManager, made>>
                 ELSE /\ made' = [made EXCEPT ![pkg] = @ + 1]
                      /\ defaultManager' = [defaultManager EXCEPT ![pkg] =
                                               [id |-> made[pkg] + 1, arg |-> arg]]
              /\ defaultManagerOnce' = [defaultManagerOnce EXCEPT ![pkg] = "done"]
              /\ initRet' = [initRet EXCEPT ![p] = [initPc[p] EXCEPT !.panic = err]]
    /\ initPc' = [initPc EXCEPT ![p] = NoInit]
    /\ UNCHANGED defRet
    /\ UNCHANGED <<managerVars, mustVars, lifeVars, extraVars>>

\* Default(): return defaultManager
Default(p, pkg) ==
    /\ initPc[p] = NoInit
    /\ defRet' = [defRet EXCEPT ![p] =
                     [pkg |-> pkg, m |-> defaultManager[pkg],
                      once |-> defaultManagerOnce[pkg]]]
    /\ UNCHANGED <<defaultManager, defaultManagerOnce, made, initPc, initRet>>
    /\ UNCHANGED <<managerVars, mustVars, lifeVars, extraVars>>

\* two goroutines calling Init and Default of both packages in any order
NextDefault ==
    \/ \E p \in Procs, pkg \in Pkgs, arg \in InitArgs : InitEnter(p, pkg, arg)
    \/ \E p \in Procs : InitBody(p)
    \/ \E p \in Procs, pkg \in Pkgs : Default(p, pkg)

SpecDefault == Init /\ [][NextDefault]_vars

(***************************************************************************)
(* Drugo's life cycle: Boot, Run, Shutdown and Serve over the services of   *)
(* the container.  A service's Boot, Run and Close return nil or an error   *)
(* of that service; ErrOf(i) is the error of the i-th registered service.   *)
(***************************************************************************)
\* a service: whether it implements kernel.Runner
ServiceKinds == [runner : BOOLEAN]

\* the services registered before the life cycle starts
ServiceLists == UNION {[1..n -> ServiceKinds] : n \in 0..MaxServices}

\* everything that is not the Drugo's
restVars == <<managerVars, mustVars, defaultVars, extraVars>>

\* the main goroutine is in no kernel method and no Run is under way
Quiet ==
    /\ mainPc = "idle"
    /\ servePc = "none"
    /\ runPc \in {"idle", "done"}

\* where the main goroutine is once the method it called directly returns
Returned(pc, method) == IF pc = method THEN "idle" ELSE pc

\* Boot is entered: services := d.Container().Services()
BootBegin ==
    /\ bootIdx' = 1
    /\ bootLog' = <<>>
    /\ bootRet' = NoReturn

\* d.Boot(ctx) called directly
BootCall ==
    /\ Quiet
    /\ mainPc' = "Boot"
    /\ BootBegin
    /\ UNCHANGED <<services, runVars, shutVars, serveVars, restVars>>

InBoot == bootRet = NoReturn /\ (mainPc = "Boot" \/ servePc = "boot")

\* if err := service.Boot(ctx); err != nil { return err }
BootNeverStops(err) == FALSE
BootStops(err) == err # Nil

\* one round of Boot's loop: service.Boot(ctx) returns err
BootStep(err) ==
    /\ InBoot
    /\ bootIdx \in 1..Len(services)
    /\ err \in {Nil, ErrOf(bootIdx)}
    /\ bootLog' = Append(bootLog, [svc |-> bootIdx, err |-> err])
    /\ IF BootStops(err)
       THEN /\ bootRet' = err
            /\ mainPc' = Returned(mainPc, "Boot")
            /\ UNCHANGED bootIdx
       ELSE /\ bootIdx' = bootIdx + 1
            /\ UNCHANGED <<bootRet, mainPc>>
    /\ UNCHANGED <<services, runVars, shutVars, serveVars, restVars>>

\* no service (left): return nil
BootDone ==
    /\ InBoot
    /\ bootIdx > Len(services)
    /\ bootRet' = Nil
    /\ mainPc' = Returned(mainPc, "Boot")
    /\ UNCHANGED <<services, bootIdx, bootLog, runVars, shutVars, serveVars, restVars>>

\* Run is entered, directly or in Serve's goroutine
RunBegin(by) ==
    /\ runPc' = "spawn"
    /\ runIdx' = 1
    /\ runBy' = by
    /\ runners' = [i \in 1..Len(services) |-> "none"]
    /\ runLog' = <<>>
    /\ groupErr' = Nil
    /\ groupCancelled' = FALSE
    /\ runCancelled' = FALSE
    /\ runRet' = NoReturn

\* d.Run(ctx) called directly
RunCall ==
    /\ Quiet
    /\ mainPc' = "Run"
    /\ RunBegin("main")
    /\ UNCHANGED <<services, bootVars, shutVars, serveVars, restVars>>

\* Run returns err: to its caller, or into errChan from Serve's goroutine
RunReturns(err) ==
    /\ runRet' = err
    /\ runPc' = "done"
    /\ IF runBy = "serve"
       THEN /\ errChan' = err
            /\ UNCHANGED mainPc
       ELSE /\ mainPc' = Returned(mainPc, "Run")
            /\ UNCHANGED errChan

\* if len(services) == 0 { return nil }
RunEmpty ==
    /\ runPc = "spawn"
    /\ Len(services) = 0
    /\ RunReturns(Nil)
    /\ UNCHANGED <<services, bootVars, runIdx, runBy, runners, runLog, groupErr,
                   groupCancelled, runCancelled, shutVars, servePc, quit,
                   sigOrder, took, runErr, serveRet, restVars>>

\* runner, ok := service.(kernel.Runner)
EveryService(svc) == TRUE
IsRunner(svc) == svc.runner

\* one round of Run's loop: g.Go(...) for a Runner, continue otherwise
RunSpawn ==
    /\ runPc = "spawn"
    /\ runIdx \in 1..Len(services)
    /\ runners' = IF IsRunner(services[runIdx])
                  THEN [runners EXCEPT ![runIdx] = "running"]
                  ELSE runners
    /\ runIdx' = runIdx + 1
    /\ UNCHANGED <<services, mainPc, bootVars, runPc, runBy, runLog, groupErr,
                   groupCancelled, runCancelled, runRet, shutVars, serveVars,
                   restVars>>

\* the loop is over: g.Wait() is called
RunSpawned ==
    /\ runPc = "spawn"
    /\ Len(services) > 0
    /\ runIdx > Len(services)
    /\ runPc' = "wait"
    /\ UNCHANGED <<services, mainPc, bootVars, runIdx, runBy, runners, runLog,
                   groupErr, groupCancelled, runCancelled, runRet, shutVars,
                   serveVars, restVars>>

\* errgroup's errOnce: the first error is kept
FirstError(cur, err) == IF cur = Nil THEN err ELSE cur

\* the goroutine of Runner i returns err; errgroup keeps the first error
\* and cancels the group's context on it
RunnerReturn(i, err) ==
    /\ i \in 1..Len(services)
    /\ runners[i] = "running"
    /\ err \in {Nil, ErrOf(i)}
    /\ runners' = [runners EXCEPT ![i] = "returned"]
    /\ runLog' = Append(runLog, [svc |-> i, err |-> err])
    /\ groupErr' = FirstError(groupErr, err)
    /\ groupCancelled' = (groupCancelled \/ err # Nil)
    /\ UNCHANGED <<services, mainPc, bootVars, runPc, runIdx, runBy,
                   runCancelled, runRet, shutVars, serveVars, restVars>>

\* g.Wait() returns once every goroutine of the group has returned
RunWait ==
    /\ runPc = "wait"
    /\ \A i \in 1..Len(services) : runners[i] # "running"
    /\ groupCancelled' = TRUE
    /\ RunReturns(groupErr)
    /\ UNCHANGED <<services, bootVars, runIdx, runBy, runners, runLog, groupErr,
                   runCancelled, shutVars, servePc, quit, sigOrder, took,
                   runErr, serveRet, restVars>>

\* Shutdown is entered: the loop starts at the last service
ShutdownBegin ==
    /\ closeIdx' = Len(services)
    /\ closeLog' = <<>>
    /\ shutRet' = NoReturn

\* d.Shutdown(ctx) called directly
ShutdownCall ==
    /\ Quiet
    /\ mainPc' = "Shutdown"
    /\ ShutdownBegin
    /\ UNCHANGED <<services, bootVars, runVars, serveVars, restVars>>

InShutdown == shutRet = NoReturn /\ (mainPc = "Shutdown" \/ servePc = "shutdown")

\* a Close error is logged and the loop goes on
CloseStopsOnError(err) == err # Nil
CloseStops(err) == FALSE

\* one round of Shutdown's loop: service.Close(ctx) returns err
CloseStep(err) ==
    /\ InShutdown
    /\ closeIdx \in 1..Len(services)
    /\ err \in {Nil, ErrOf(closeIdx)}
    /\ closeLog' = Append(closeLog, [svc |-> closeIdx, err |-> err])
    /\ IF CloseStops(err)
       THEN /\ shutRet' = err
            /\ mainPc' = Returned(mainPc, "Shutdown")
            /\ UNCHANGED closeIdx
       ELSE /\ closeIdx' = closeIdx - 1
            /\ UNCHANGED <<shutRet, mainPc>>
    /\ UNCHANGED <<services, bootVars, runVars, serveVars, restVars>>

\* no service (left): return nil
ShutdownDone ==
    /\ InShutdown
    /\ closeIdx = 0
    /\ shutRet' = Nil
    /\ mainPc' = Returned(mainPc, "Shutdown")
    /\ UNCHANGED <<services, closeIdx, closeLog, bootVars, runVars, serveVars, restVars>>

\* d.Serve(ctx): its first call is d.Boot(ctx)
ServeCall ==
    /\ Quiet
    /\ mainPc' = "Serve"
    /\ servePc' = "boot"
    /\ BootBegin
    /\ runPc' = "idle"
    /\ runIdx' = 0
    /\ runBy' = "none"
    /\ runners' = [i \in 1..Len(services) |-> "none"]
    /\ runLog' = <<>>
    /\ groupErr' = Nil
    /\ groupCancelled' = FALSE
    /\ runCancelled' = FALSE
    /\ runRet' = NoReturn
    /\ closeIdx' = 0
    /\ closeLog' = <<>>
    /\ shutRet' = NoReturn
    /\ UNCHANGED <<services, quit, errChan, sigOrder, took, runErr, serveRet, restVars>>

\* if err := d.Boot(ctx); err != nil { return err }
BootIgnored(ret) == FALSE
BootFailed(ret) == ret # Nil

\* Boot returned: Serve returns its error, or registers for the signals
\* and starts the goroutine of d.Run(runCtx)
ServeBooted ==
    /\ servePc = "boot"
    /\ bootRet # NoReturn
    /\ IF BootFailed(bootRet)
       THEN /\ serveRet' = bootRet
            /\ servePc' = "returned"
            /\ mainPc' = "idle"
            /\ UNCHANGED runVars
       ELSE /\ servePc' = "select"
            /\ RunBegin("serve")
            /\ UNCHANGED <<serveRet, mainPc>>
    /\ UNCHANGED <<services, bootVars, shutVars, quit, errChan, sigOrder, took,
                   runErr, restVars>>

\* SIGINT or SIGTERM reaches the process while Serve is registered for it
Signal ==
    /\ servePc = "select"
    /\ ~quit
    /\ quit' = TRUE
    /\ sigOrder' = IF runPc = "done" THEN "afterRun" ELSE "beforeRun"
    /\ UNCHANGED <<services, mainPc, bootVars, runVars, shutVars, servePc,
                   errChan, took, runErr, serveRet, restVars>>

\* the cases of Serve's select that can proceed
Ready == {c \in {"run", "signal"} : (c = "run" /\ errChan # NoReturn) \/ (c = "signal" /\ quit)}

\* Serve's select takes one of the cases that can proceed: Run's result, or
\* the signal (then it cancels Run's context); Shutdown is entered
ServeSelect(c) ==
    /\ servePc = "select"
    /\ c \in Ready
    /\ took' = c
    /\ IF c = "run"
       THEN /\ runErr' = errChan
            /\ errChan' = NoReturn
            /\ UNCHANGED <<quit, runCancelled>>
       ELSE /\ quit' = FALSE
            /\ runCancelled' = TRUE
            /\ UNCHANGED <<runErr, errChan>>
    /\ servePc' = "shutdown"
    /\ ShutdownBegin
    /\ UNCHANGED <<services, mainPc, bootVars, runPc, runIdx, runBy, runners,
                   runLog, groupErr, groupCancelled, runRet, sigOrder, serveRet,
                   restVars>>

\* what Serve returns after Shutdown returned shut, its runErr being run
ServeResultOfShutdown(shut, run) == shut
ServeResult(shut, run) ==
    IF shut # Nil THEN (IF run # Nil THEN run ELSE shut) ELSE run

\* Shutdown returned: Serve returns, its deferred cancelRun() runs
ServeReturn ==
    /\ servePc = "shutdown"
    /\ shutRet # NoReturn
    /\ serveRet' = ServeResult(shutRet, runErr)
    /\ servePc' = "returned"
    /\ mainPc' = "idle"
    /\ runCancelled' = TRUE
    /\ UNCHANGED <<services, bootVars, runPc, runIdx, runBy, runners, runLog,
                   groupErr, groupCancelled, runRet, shutVars, quit, errChan,
                   sigOrder, took, runErr, restVars>>

\* a Drugo over any list of services: its methods called directly in any
\* order, or Serve, with the services' methods returning nil or an error
NextLife ==
    \/ BootCall
    \/ \E i \in 0..MaxServices : BootStep(i)
    \/ BootDone
    \/ RunCall
    \/ RunEmpty
    \/ RunSpawn
    \/ RunSpawned
    \/ \E i \in 1..MaxServices, err \in 0..MaxServices : RunnerReturn(i, err)
    \/ RunWait
    \/ ShutdownCall
    \/ \E i \in 0..MaxServices : CloseStep(i)
    \/ ShutdownDone
    \/ ServeCall
    \/ ServeBooted
    \/ Signal
    \/ \E c \in {"run", "signal"} : ServeSelect(c)
    \/ ServeReturn

InitLife ==
    /\ Unbuilt(InitDisk)
    /\ MustInit
    /\ DefaultInit
    /\ ExtraInit
    /\ \E svcs \in ServiceLists : Built(svcs)

SpecLife == InitLife /\ [][NextLife]_vars

\* the two reload paths: a client calls Reset() itself while callbacks are
\* registered and the loop reloads on file events
NextManual ==
    \/ Watch(TRUE)
    \/ \E cb \in Callbacks : OnReload(cb)
    \/ \E e \in ReloadEdits : EditFile(e[1], e[2])
    \/ Reset
    \/ LoopEvent
    \/ LoopReset
    \/ LoopSnapshot
    \/ LoopCall
    \/ LoopReturn

SpecManual == Init /\ [][NextManual]_vars


(***************************************************************************)
(* drugo.Container: Bind under the write lock; Get, Services and Names     *)
(* under the read lock.                                                    *)
(***************************************************************************)
MaxBinds == 3

\* the names services are bound under and the instances bound
SvcNames == {"a", "b", "c"}
Instances == {"s1", "s2"}
\* the zero value of T, the mark of a key the map does not hold, and what a caller
\* writes into a slice it was handed
NilService == "nil"
NotBound == "absent"
Junk == "junk"

\* errors as chains: the head wraps the rest; nil is the empty chain
NilError == <<>>
ErrServiceNotFound == <<"kernel: service not found">>
NewError(op, err) == IF err = NilError THEN NilError ELSE <<op>> \o err
NewServiceNotFound(serviceName) == NewError(serviceName, ErrServiceNotFound)
\* errors.Is(err, target)
ErrorsIs(err, target) ==
    \E i \in 1..Len(err) : SubSeq(err, i, Len(err)) = target
IsServiceNotFound(err) == ErrorsIs(err, ErrServiceNotFound)

\* everything that is not the container's
notContainerVars == <<managerVars, mustVars, defaultVars, lifeVars, logVars,
                      routerVars, heapVars>>

\* svc, ok := c.services[name]
Lookup(m, name) ==
    IF m[name] = NotBound THEN [svc |-> NilService, ok |-> FALSE]
    ELSE [svc |-> m[name], ok |-> TRUE]

AlwaysNew(m, name) == TRUE

\* Bind: if _, ok := c.services[name]; !ok
IsNew(m, name) == ~Lookup(m, name).ok

SameSlice(ids) == [shared |-> TRUE, elems |-> ids]

\* Names: names := make([]string, len(c.servicesIds)); copy(names, c.servicesIds)
CopyOf(ids) == [shared |-> FALSE, elems |-> ids]

\* c.mu.RLock() returns once no Bind holds the lock
ReadersWait(m) == m = "free"

\* Bind(name, service), up to the append: the lock is taken and a name the
\* map does not hold is appended to servicesIds
BindEnter(p, name, service) ==
    /\ bindPc[p] = NoBind
    /\ Len(bindLog) < MaxBinds
    /\ containerMu = "free"
    /\ containerMu' = p
    /\ servicesIds' = IF IsNew(servicesMap, name) THEN Append(servicesIds, name)
                      ELSE servicesIds
    /\ bindPc' = [bindPc EXCEPT ![p] = [name |-> name, service |-> service]]
    /\ bindLog' = Append(bindLog, [name |-> name, service |-> service])
    /\ UNCHANGED <<servicesMap, got, notContainerVars>>

\* Bind: c.services[name] = service, then the deferred Unlock
BindStore(p) ==
    /\ bindPc[p] # NoBind
    /\ containerMu = p
    /\ servicesMap' = [servicesMap EXCEPT ![bindPc[p].name] = bindPc[p].service]
    /\ containerMu' = "free"
    /\ bindPc' = [bindPc EXCEPT ![p] = NoBind]
    /\ UNCHANGED <<servicesIds, bindLog, got, notContainerVars>>

\* Get(name)
ContainerGet(name) ==
    /\ ReadersWait(containerMu)
    /\ LET r == Lookup(servicesMap, name) IN
           got' = [op |-> "Get", name |-> name, at |-> Len(bindLog),
                   elems |-> <<r.svc>>,
                   err |-> IF r.ok THEN NilError ELSE NewServiceNotFound(name),
                   shared |-> FALSE, dirty |-> FALSE]
    /\ UNCHANGED <<servicesMap, servicesIds, containerMu, bindPc, bindLog,
                   notContainerVars>>

\* Services(): a new slice of the instances in servicesIds order
ContainerServices ==
    /\ ReadersWait(containerMu)
    /\ got' = [op |-> "Services", name |-> "nil", at |-> Len(bindLog),
               elems |-> [i \in 1..Len(servicesIds) |->
                             Lookup(servicesMap, servicesIds[i]).svc],
               err |-> NilError, shared |-> FALSE, dirty |-> FALSE]
    /\ UNCHANGED <<servicesMap, servicesIds, containerMu, bindPc, bindLog,
                   notContainerVars>>

\* Names(): a copy of servicesIds
ContainerNames ==
    /\ ReadersWait(containerMu)
    /\ LET names == CopyOf(servicesIds) IN
           got' = [op |-> "Names", name |-> "nil", at |-> Len(bindLog),
                   elems |-> names.elems, err |-> NilError,
                   shared |-> names.shared, dirty |-> FALSE]
    /\ UNCHANGED <<servicesMap, servicesIds, containerMu, bindPc, bindLog,
                   notContainerVars>>

\* the caller overwrites element i of the slice it was handed
CallerWrites(i) ==
    /\ got.op \in {"Services", "Names"}
    /\ ~got.dirty
    /\ i \in 1..Len(got.elems)
    /\ got' = [got EXCEPT !.elems[i] = Junk, !.dirty = TRUE]
    /\ servicesIds' = IF got.shared /\ i <= Len(servicesIds)
                      THEN [servicesIds EXCEPT ![i] = Junk]
                      ELSE servicesIds
    /\ UNCHANGED <<servicesMap, containerMu, bindPc, bindLog, notContainerVars>>

NextContainer ==
    \/ \E p \in Procs, name \in SvcNames, service \in Instances :
           BindEnter(p, name, service)
    \/ \E p \in Procs : BindStore(p)
    \/ \E name \in SvcNames : ContainerGet(name)
    \/ ContainerServices
    \/ ContainerNames
    \/ \E i \in 1..MaxBinds : CallerWrites(i)

InitContainer == Unbuilt(InitDisk) /\ OuterInit

SpecContainer == InitContainer /\ [][NextContainer]_vars


(***************************************************************************)
(* log.Manager: Get with its read-locked cache check and its write-locked  *)
(* construction, Close and Remove.  A logger is the number of the          *)
(* NewZapLogger call that constructed it; 0 is nil.  The Manager's cfg     *)
(* passed Validate, so NewZapLogger does not fail.                         *)
(***************************************************************************)
MaxLoggers == 3

\* everything that is not the log Manager's
notLogVars == <<managerVars, mustVars, defaultVars, lifeVars, containerVars,
                routerVars, heapVars>>

\* l, ok := m.loggers[bizName]
Cached(m, bizName) == m[bizName] # NilLogger

NeverRechecks(m, bizName) == FALSE

\* Get, inside the write lock: if logger, ok := m.loggers[bizName]; ok
Rechecked(m, bizName) == Cached(m, bizName)

\* what Get returns: the logger, the error, and the evictions of the name
\* that came before the cache was read
GetReturns(bizName, logger, err) ==
    [name |-> bizName, logger |-> logger, err |-> err,
     epoch |-> evicted[bizName]]

\* Get(""): ErrEmptyBizName, before any lock
LogGetEmpty(p) ==
    /\ logPc[p] = "idle"
    /\ logRet' = [logRet EXCEPT ![p] = GetReturns("", NilLogger, "ErrEmptyBizName")]
    /\ UNCHANGED <<loggers, logPc, minted, evicted, logLast, notLogVars>>

\* Get(bizName), the check under the read lock: a hit returns the cached
\* logger, a miss goes on to the write lock
LogGetFast(p, bizName) ==
    /\ logPc[p] = "idle"
    /\ bizName # ""
    /\ IF Cached(loggers, bizName)
       THEN /\ logRet' = [logRet EXCEPT ![p] =
                             GetReturns(bizName, loggers[bizName], "nil")]
            /\ UNCHANGED logPc
       ELSE /\ logPc' = [logPc EXCEPT ![p] = bizName]
            /\ UNCHANGED logRet
    /\ UNCHANGED <<loggers, minted, evicted, logLast, notLogVars>>

\* Get(bizName), under the write lock: the second check, then NewZapLogger
\* and the store into m.loggers and m.levels
LogGetSlow(p) ==
    /\ logPc[p] # "idle"
    /\ LET bizName == logPc[p] IN
       IF Rechecked(loggers, bizName)
       THEN /\ logRet' = [logRet EXCEPT ![p] =
                             GetReturns(bizName, loggers[bizName], "nil")]
            /\ UNCHANGED <<loggers, minted>>
       ELSE /\ minted < MaxLoggers
            /\ minted' = minted + 1
            /\ loggers' = [loggers EXCEPT ![bizName] = minted + 1]
            /\ logRet' = [logRet EXCEPT ![p] =
                             GetReturns(bizName, minted + 1, "nil")]
    /\ logPc' = [logPc EXCEPT ![p] = "idle"]
    /\ UNCHANGED <<evicted, logLast, notLogVars>>

\* Close(): every logger is synced, sync errors are collected, and both
\* maps are replaced by empty ones whatever Sync returned
LogClose(syncOK) ==
    /\ \E n \in BizNames : Cached(loggers, n)
    /\ loggers' = [n \in BizNames |-> NilLogger]
    /\ evicted' = [n \in BizNames |->
                      IF Cached(loggers, n) THEN evicted[n] + 1 ELSE evicted[n]]
    /\ logLast' = IF syncOK THEN "nil" ELSE "err"
    /\ UNCHANGED <<logPc, logRet, minted, notLogVars>>

\* Remove(bizName): a cached logger is synced and, unless Sync failed,
\* deleted from both maps
LogRemove(bizName, syncOK) ==
    /\ IF Cached(loggers, bizName) /\ syncOK
       THEN /\ loggers' = [loggers EXCEPT ![bizName] = NilLogger]
            /\ evicted' = [evicted EXCEPT ![bizName] = @ + 1]
       ELSE UNCHANGED <<loggers, evicted>>
    /\ logLast' = IF Cached(loggers, bizName) /\ ~syncOK THEN "err" ELSE "nil"
    /\ UNCHANGED <<logPc, logRet, minted, notLogVars>>

NextLog ==
    \/ \E p \in Procs : LogGetEmpty(p)
    \/ \E p \in Procs, n \in BizNames : LogGetFast(p, n)
    \/ \E p \in Procs : LogGetSlow(p)
    \/ \E ok \in BOOLEAN : LogClose(ok)
    \/ \E n \in BizNames, ok \in BOOLEAN : LogRemove(n, ok)

SpecLog == InitContainer /\ [][NextLog]_vars


(***************************************************************************)
(* router.Registry: Register appends under the mutex; Setup copies the     *)
(* list under the mutex and calls the copy's functions without it.  A      *)
(* function is known by its place in r.fs; its kind says whether it calls  *)
(* Register itself when it runs.                                           *)
(***************************************************************************)
MaxFuncs == 3

FuncKinds == {"plain", "registers"}

\* everything that is not the Registry's
notRouterVars == <<managerVars, mustVars, defaultVars, lifeVars, containerVars,
                   logVars, heapVars>>

LiveFuncs(copy, live) == live

\* Setup: for _, f := range fs, over the copy and not over r.fs
FuncsToRun(copy, live) == copy

\* Register(f)
Register(kind) ==
    /\ Len(registryFs) < MaxFuncs
    /\ registryFs' = Append(registryFs, kind)
    /\ UNCHANGED <<setups, notRouterVars>>

\* Setup(p) is called
SetupCall(p) ==
    /\ setups[p].pc \in {"idle", "done"}
    /\ setups' = [setups EXCEPT ![p] =
                     [pc |-> "called", base |-> Len(registryFs),
                      fs |-> <<>>, ran |-> <<>>]]
    /\ UNCHANGED <<registryFs, notRouterVars>>

\* Setup: Lock, fs := copy of r.fs, Unlock
SetupCopy(p) ==
    /\ setups[p].pc = "called"
    /\ setups' = [setups EXCEPT ![p].pc = "running", ![p].fs = registryFs]
    /\ UNCHANGED <<registryFs, notRouterVars>>

\* Setup: the next f(p) of the loop; a function of kind "registers" calls
\* Register from inside (while r.fs has room)
SetupStep(p) ==
    /\ setups[p].pc = "running"
    /\ LET todo == FuncsToRun(setups[p].fs, registryFs)
           i == Len(setups[p].ran) + 1
       IN  /\ i <= Len(todo)
           /\ setups' = [setups EXCEPT ![p].ran = Append(@, i)]
           /\ registryFs' =
                  IF todo[i] = "registers" /\ Len(registryFs) < MaxFuncs
                  THEN Append(registryFs, "plain")
                  ELSE registryFs
    /\ UNCHANGED notRouterVars

\* Setup: the loop is over and Setup returns
SetupReturn(p) ==
    /\ setups[p].pc = "running"
    /\ Len(setups[p].ran) >= Len(FuncsToRun(setups[p].fs, registryFs))
    /\ setups' = [setups EXCEPT ![p].pc = "done"]
    /\ UNCHANGED <<registryFs, notRouterVars>>

NextRouter ==
    \/ \E kind \in FuncKinds : Register(kind)
    \/ \E p \in Procs : SetupCall(p)
    \/ \E p \in Procs : SetupCopy(p)
    \/ \E p \in Procs : SetupStep(p)
    \/ \E p \in Procs : SetupReturn(p)

SpecRouter == InitContainer /\ [][NextRouter]_vars


(***************************************************************************)
(* Reset statement by statement, with Get and the watcher's reloads: after *)
(* Lock and loadConfigs, m.root = root and m.configs = make(...) are two   *)
(* writes inside the one critical section.                                 *)
(***************************************************************************)
\* Reset after m.mu.Lock(): loadConfigs, the early return on its error, and
\* m.root = root
ResetSwap(p) ==
    /\ ~panicked
    /\ UNCHANGED outerVars
    /\ getPc[p] = "reset"
    /\ mu.writer = p
    /\ \E res \in LoadResults(disk) :
          LET r == ResetResult(root, configs, res)
          IN  /\ CanReload(res)
              /\ root' = r.root
              /\ built' = IF r.root.gen # root.gen THEN [k \in Keys |-> 0] ELSE built
              /\ IF r.err # NoErr
                 THEN /\ mu' = Unlock(mu, p)
                      /\ getPc' = [getPc EXCEPT ![p] = "idle"]
                      /\ last' = [op |-> "Reset", err |-> r.err, same |-> TRUE]
                 ELSE /\ getPc' = [getPc EXCEPT ![p] = "clear"]
                      /\ UNCHANGED <<mu, last>>
    /\ UNCHANGED <<disk, configs, getArg, getRet, watchVars, loopVars, events,
                   reloadCallbacks, panicked, listRet>>

\* Reset: m.configs = make(map[string]*viper.Viper), return nil and the
\* deferred m.mu.Unlock()
ResetClear(p) ==
    /\ ~panicked
    /\ UNCHANGED outerVars
    /\ getPc[p] = "clear"
    /\ mu.writer = p
    /\ configs' = EmptyCache
    /\ last' = [op |-> "Reset", err |-> NoErr, same |-> FALSE]
    /\ mu' = Unlock(mu, p)
    /\ getPc' = [getPc EXCEPT ![p] = "idle"]
    /\ UNCHANGED <<disk, root, built, getArg, getRet, watchVars, loopVars,
                   events, reloadCallbacks, panicked, listRet>>

\* what is written into the directory: values and top-level keys change
SwapEdits ==
    {<<FnA, FileOf(OneKey("x", "v2"))>>,
     <<FnB, Absent>>,
     <<FnB, FileOf(OneKey("y", "v1"))>>}

\* Get by one client, Reset by another, reloads by the watcher
NextSwap ==
    \/ Watch(TRUE)
    \/ \E e \in SwapEdits : EditFile(e[1], e[2])
    \/ \E name \in Keys : GetFast(Reader, name)
    \/ GetSlow(Reader)
    \/ ResetLock(Resetter)
    \/ ResetSwap(Resetter)
    \/ ResetClear(Resetter)
    \/ LoopEvent
    \/ LoopReset
    \/ LoopSnapshot
    \/ LoopReturn

SpecSwap == Init /\ [][NextSwap]_vars


\* the watcher's passes one after the other: Watch and StopWatch in any
\* order, callbacks registered at any time, file events queuing up while a
\* pass runs
NextSerial ==
    \/ Watch(TRUE)
    \/ StopWatchEnter
    \/ StopWatchBody
    \/ StopWatchAgain
    \/ \E cb \in Callbacks : OnReload(cb)
    \/ \E e \in ReloadEdits : EditFile(e[1], e[2])
    \/ LoopEvent
    \/ LoopExit
    \/ LoopReset
    \/ LoopSnapshot
    \/ LoopCall
    \/ LoopReturn

SpecSerial == Init /\ [][NextSerial]_vars


(***************************************************************************)
(* Reset and the trees in memory.  loadConfigs builds its tree in a new    *)
(* viper; a handle made by Sub and the pointer Root returns refer to the   *)
(* tree they were taken from, so what they expose is what that tree holds  *)
(* now.                                                                    *)
(***************************************************************************)
\* everything outside the Manager except the trees in memory
notHeapVars == <<mustVars, defaultVars, lifeVars, containerVars, logVars,
                 routerVars>>

MergeIntoOld(heap, old, new) ==
    [heap EXCEPT ![old.gen] = new.data, ![new.gen] = new.data]

\* loadConfigs: root := viper.New(), filled and returned; m.root is not
\* touched until Reset assigns the new pointer
NewTree(heap, old, new) == [heap EXCEPT ![new.gen] = new.data]

\* what a handle and a tree pointer expose now
HandleView(h) == trees[h.gen][h.name]
RootView(gen) == trees[gen]

\* Reset(), with the tree it loads placed in memory
ResetOnHeap ==
    /\ ~panicked
    /\ CanLock(mu)
    /\ \E res \in LoadResults(disk) :
          LET r == ResetResult(root, configs, res)
          IN  /\ CanReload(res)
              /\ root' = r.root
              /\ configs' = r.configs
              /\ built' = IF r.root.gen # root.gen THEN [k \in Keys |-> 0] ELSE built
              /\ last' = [op |-> "Reset", err |-> r.err,
                          same |-> (r.root = root /\ r.configs = configs)]
              /\ trees' = IF r.err # NoErr THEN trees
                          ELSE NewTree(trees, root, r.root)
    /\ UNCHANGED <<disk, clientVars, watchVars, loopVars, events,
                   reloadCallbacks, panicked, lockVars, kept, notHeapVars>>

\* Root(): the caller keeps the pointer it got
RootKeep(p) ==
    /\ ~panicked
    /\ getPc[p] = "idle"
    /\ kept' = [gen |-> root.gen, data |-> RootView(root.gen)]
    /\ UNCHANGED <<managerVars, trees, notHeapVars>>

\* what is written into the directory between the Resets
HeapEdits ==
    {<<FnA, FileOf(OneKey("x", "v2"))>>,
     <<FnB, Absent>>,
     <<FnB, FileOf(OneKey("y", "v1"))>>}

NextHeap ==
    \/ \E name \in Keys : GetFast(Reader, name)
    \/ GetSlow(Reader)
    \/ \E p \in Procs : RootKeep(p)
    \/ ResetOnHeap
    \/ \E e \in HeapEdits : EditFile(e[1], e[2])

SpecHeap == Init /\ [][NextHeap]_vars


(***************************************************************************)
(* Properties of the namespace cache (checked under Spec).                 *)
(***************************************************************************)
\* a completed Get of client p that returned since the last successful Reset
Fresh(p) == getRet[p].name \in Keys /\ getRet[p].gen = root.gen

\* a completed Get of client p that returned before the last successful Reset
Stale(p) == getRet[p].name \in Keys /\ getRet[p].gen < root.gen

\* C1: Get calls with no Reset between them, for a top-level key of the
\* current tree, all return the same handle instance, and at most one handle
\* is constructed per (generation, name): the count of handles built from the
\* current tree never exceeds one per name, and every Get that returned in
\* this generation returned the cached instance.
C1_OneHandlePerGeneration ==
    /\ \A k \in Keys : built[k] <= 1
    /\ \A p \in Procs :
          (Fresh(p) /\ root.data[getRet[p].name] # NoVal)
              => /\ getRet[p].h # NoHandle
                 /\ getRet[p].h = configs[getRet[p].name]
    /\ \A p, q \in Procs :
          (Fresh(p) /\ Fresh(q) /\ getRet[p].name = getRet[q].name)
              => getRet[p].h = getRet[q].h

\* two clients raced for the same name after a reload: one is between its
\* two locks while the other has built, cached and returned the handle
C1_Witness ==
    /\ getPc["p1"] = "slow" /\ getArg["p1"] = "x"
    /\ Fresh("p2") /\ getRet["p2"].name = "x"
    /\ getRet["p2"].h # NoHandle
    /\ getRet["p2"].h = configs["x"]
    /\ built["x"] = 1
    /\ root.gen > 1

\* C2: a successful Reset leaves the cache empty and installs the tree just
\* loaded from the directory; a Get that returns afterwards for a name of the
\* new tree succeeds with a handle built from the new tree, holding the new
\* content, and different from every handle returned before the Reset.
C2_ResetClearsCache ==
    /\ [][root'.gen # root.gen
            => /\ configs' = EmptyCache
               /\ \E r \in LoadResults(disk) :
                     r.err = NoErr /\ root'.data = r.data]_vars
    /\ [](\A k \in Keys :
            configs[k] # NoHandle
                => /\ configs[k].gen = root.gen
                   /\ configs[k].data = root.data[k])
    /\ [](\A p \in Procs :
            (Fresh(p) /\ root.data[getRet[p].name] # NoVal)
                => /\ getRet[p].err = NoErr
                   /\ getRet[p].h.gen = root.gen
                   /\ getRet[p].h.data = root.data[getRet[p].name]
                   /\ \A q \in Procs : Stale(q) => getRet[q].h # getRet[p].h)

\* a handle for x was returned, the file was rewritten, Reset succeeded, and
\* a later Get returned a handle with the rewritten content
C2_Witness ==
    /\ Stale("p1") /\ getRet["p1"].name = "x" /\ getRet["p1"].h.data = "v1"
    /\ Fresh("p2") /\ getRet["p2"].name = "x" /\ getRet["p2"].h.data = "v2"
    /\ last.op = "Reset" /\ last.err = NoErr

\* C3: a Reset that fails returns the load error (directory unreadable, file
\* unparsable or a value that is no namespace, or duplicate key) and leaves
\* the tree and the cache exactly as they were; the cache still holds only
\* handles of the current tree.
C3_FailedResetKeepsState ==
    (last.op = "Reset" /\ last.err # NoErr)
        => /\ last.same
           /\ last.err \in {ErrDirRead, ErrFileRead, ErrDuplicateKey}
           /\ \A k \in Keys :
                 configs[k] # NoHandle
                     => configs[k].gen = root.gen /\ configs[k].data = root.data[k]

\* a Reset failed on a duplicate key while a handle was cached; the handle
\* is still the one a Get returns
C3_Witness ==
    /\ last.op = "Reset" /\ last.err = ErrDuplicateKey
    /\ configs["x"] # NoHandle
    /\ Fresh("p1") /\ getRet["p1"].name = "x" /\ getRet["p1"].h = configs["x"]
    /\ root.data["y"] = NoVal

\* C4: a Get for a name that is no top-level key of the current tree returns
\* a nil handle and an error satisfying IsNotFound and caches nothing; the
\* miss is not remembered: once a Reset has brought the name in, a Get of it
\* succeeds.
C4_NotFoundNotMemoized ==
    /\ \A k \in Keys : configs[k] # NoHandle => root.data[k] # NoVal
    /\ \A p \in Procs :
          /\ getRet[p].err \in {NoErr, ErrNotFound}
          /\ IsNotFound(getRet[p].err) => getRet[p].h = NoHandle
          /\ (Fresh(p) /\ root.data[getRet[p].name] = NoVal)
                => /\ IsNotFound(getRet[p].err)
                   /\ getRet[p].h = NoHandle
                   /\ configs[getRet[p].name] = NoHandle
          /\ (Fresh(p) /\ root.data[getRet[p].name] # NoVal)
                => /\ getRet[p].err = NoErr
                   /\ getRet[p].h # NoHandle

\* Get("y") failed with NotFound, a file declaring y appeared, Reset
\* succeeded, and a later Get("y") returned a handle
C4_Witness ==
    /\ Stale("p1") /\ getRet["p1"].name = "y" /\ IsNotFound(getRet["p1"].err)
    /\ Fresh("p2") /\ getRet["p2"].name = "y" /\ getRet["p2"].err = NoErr
    /\ getRet["p2"].h # NoHandle


(***************************************************************************)
(* Properties of Watch and StopWatch (checked under SpecWatch).            *)
(***************************************************************************)
\* the Manager is Watching: an open observer is attached and the background
\* loop is running
Watching == ObserverOpen /\ loopPc \notin {"none", "exited"}

\* C5: however many times Watch is called, one observer is attached and one
\* background loop is started; once a Watch has succeeded every Watch
\* returns nil and the watcher and the done channel stay the ones the first
\* successful call installed.
C5_WatchIdempotent ==
    /\ watcher = 0
          => Len(observers) = 0 /\ loops = 0 /\ watcherDone = NilDone
    /\ watcher # 0
          => /\ Len(observers) = 1 /\ loops = 1
             /\ watcher = 1 /\ watcherDone.id = 1
             /\ last.op = "Watch" => last.err = NoErr
    /\ (last.op = "Watch" /\ last.err # NoErr) => watcher = 0

\* Watch succeeded and a further Watch, with no StopWatch in between,
\* returned nil and changed nothing
C5_Witness ==
    /\ last = [op |-> "Watch", err |-> NoErr, same |-> TRUE]
    /\ watcherStopOnce = "fresh"
    /\ Watching
    /\ Len(observers) = 1 /\ loops = 1

\* C6: the first StopWatch, run after a successful Watch, closes the
\* observer and the done channel; every further StopWatch changes nothing
\* (the Once stays used, what is closed stays closed) and nothing panics:
\* the done channel is closed at most once.
C6_StopWatchIdempotent ==
    /\ [][(watcherStopOnce = "running" /\ watcherStopOnce' = "done" /\ watcher # 0)
            => /\ observers'[watcher] = "closed"
               /\ watcherDone'.closed
               /\ ~watcherDone.closed]_vars
    /\ [][watcherStopOnce = "done" => watcherStopOnce' = "done"]_vars
    /\ [][(watcherDone.id # 0 /\ watcherDone.closed) => watcherDone' = watcherDone]_vars
    /\ [][(watcher # 0 /\ observers[watcher] = "closed")
            => (watcher' = watcher /\ observers' = observers)]_vars
    /\ [](~panicked)

\* Watch succeeded, StopWatch closed the observer and the done channel, and
\* a further StopWatch returned without changing anything
C6_Witness ==
    /\ last = [op |-> "StopWatch", err |-> NoErr, same |-> TRUE]
    /\ watcherStopOnce = "done"
    /\ watcher # 0 /\ observers[watcher] = "closed"
    /\ watcherDone.closed
    /\ ~panicked

\* C7: a Watch call that returns success leaves the Manager Watching,
\* whether it was called before any Watch or after a StopWatch.
C7_WatchLeavesWatching ==
    (last.op = "Watch" /\ last.err = NoErr) => Watching

\* C8: once a StopWatch call has returned, the Manager is Stopped: the
\* observer is closed and no file event is delivered to the loop any more,
\* whatever the order of the Watch and StopWatch calls before.
C8_StopWatchStops ==
    last.op = "StopWatch" => (~ObserverOpen /\ events = <<>>)

(***************************************************************************)
(* Properties of the reload pass (checked under SpecReload).               *)
(***************************************************************************)
\* the callbacks invoked so far in the pass, in the order of invocation
Invoked == [i \in 1..Len(passLog) |-> passLog[i].cb]

\* no handle of a replaced tree is in the cache
CacheIsCurrent ==
    \A k \in Keys : configs[k] # NoHandle => configs[k].gen = root.gen

\* C9: when the loop handles a create or write event on a YAML path and the
\* Reset succeeds, the callbacks run after the swap of the tree and the
\* clearing of the cache, in registration order, once per registration (a
\* callback registered twice runs twice), each against the Manager.
C9_CallbacksInOrder ==
    loopPc \in {"call", "done"}
        => /\ snap = SubSeq(reloadCallbacks, 1, Len(snap))
           /\ Len(snap) >= passRegs
           /\ Len(passLog) = idx - 1
           /\ Invoked = SubSeq(snap, 1, Len(passLog))
           /\ loopPc = "done" => Invoked = snap
           /\ \A i \in 1..Len(passLog) : passLog[i].gen > passBase
           /\ root.gen > passBase
           /\ CacheIsCurrent

\* the same callback was registered twice, a YAML file was rewritten, and
\* the pass ran the callback twice against the reloaded tree
C9_Witness ==
    /\ loopPc = "done"
    /\ snap = <<"cbOk", "cbOk">>
    /\ Invoked = <<"cbOk", "cbOk">>
    /\ passLog[1].gen = passBase + 1
    /\ root.data["x"] = "v2"

\* C10: a callback returning an error stops neither the later callbacks of
\* the pass nor undoes the reload: the pass goes on to the end of the list
\* and the tree and cache installed by the Reset stay in place.
C10_CallbackErrorIsolated ==
    \A i \in 1..Len(passLog) :
        passLog[i].err # NoErr
            => /\ loopPc \in {"call", "done"}
               /\ loopPc = "call" => idx = Len(passLog) + 1 /\ idx <= Len(snap)
               /\ loopPc = "done" => Len(passLog) = Len(snap)
               /\ root.gen > passBase
               /\ root.gen >= passLog[i].gen
               /\ CacheIsCurrent

\* the first callback returned an error and the second one was still invoked,
\* against the reloaded tree
C10_Witness ==
    /\ loopPc = "done"
    /\ Len(passLog) = 2
    /\ passLog[1].err # NoErr
    /\ passLog[2].cb = "cbOk"
    /\ passLog[2].gen = passBase + 1
    /\ root.gen = passBase + 1

(***************************************************************************)
(* Properties of a failed reload (checked under SpecManual).               *)
(***************************************************************************)
\* handleReload is past its m.Reset(): copying or invoking the callbacks
InPass == loopPc \in {"snapshot", "call", "done"}

\* C11: when the m.Reset() of handleReload fails, the tree and the cache stay
\* as they were and handleReload returns to the select without a callback
\* pass; callbacks run only after a Reset that succeeded; and the loop starts
\* another reload only by taking a further qualifying event from the
\* observer, never by retrying on its own.
C11_FailedReloadSkipsCallbacks ==
    /\ [][(loopPc = "reset" /\ loopPc' # "reset" /\ reloadErr' # NoErr)
            => /\ root' = root
               /\ configs' = configs
               /\ loopPc' = "select"
               /\ passLog' = passLog
               /\ events' = events]_vars
    /\ [][(loopPc = "reset" /\ \A r \in LoadResults(disk) : r.err # NoErr)
            => (loopPc' = "reset" \/ reloadErr' # NoErr)]_vars
    /\ [](InPass => reloadErr = NoErr)
    /\ [](passLog # <<>> => InPass)
    /\ [][(loopPc # "reset" /\ loopPc' = "reset")
            => /\ loopPc = "select"
               /\ events # <<>>
               /\ Qualifies(Head(events))
               /\ events' = Tail(events)]_vars

\* a reload failed with callbacks registered, and a later event has put the
\* loop into a fresh reload attempt
C11_Witness ==
    /\ reloadErr # NoErr
    /\ reloadCallbacks # <<>>
    /\ loopPc = "reset"
    /\ passLog = <<>>

(***************************************************************************)
(* The hot-reload round trip (checked under SpecRound).                    *)
(***************************************************************************)
\* what a load of the directory as it is now yields
DiskData == (CHOOSE r \in LoadResults(disk) : r.err = NoErr).data

\* handleReload has run its whole pass for the last rewrite received: every
\* callback it copied was invoked exactly once, after the reload, and the
\* tree is the content of the directory
RoundDone ==
    /\ loopPc = "done"
    /\ events = <<>>
    /\ Invoked = snap
    /\ snap = SubSeq(reloadCallbacks, 1, Len(snap))
    /\ Len(snap) >= passRegs
    /\ \A i \in 1..Len(passLog) : passLog[i].gen = root.gen
    /\ root.gen > passBase
    /\ root.data = DiskData

\* C12: while the directory is watched and the loop is scheduled fairly, a
\* rewrite of a YAML file with valid content is followed by a completed pass
\* of handleReload in which each registered callback was invoked exactly
\* once against the reloaded tree; the loop makes one pass per rewrite; and
\* a Get completing while the tree holds the rewritten content returns a
\* handle with that content.
C12_RewriteReloads ==
    /\ (ObserverOpen /\ Pending > 0) ~> RoundDone
    /\ [][(loopPc # "reset" /\ loopPc' = "reset")
            => Len(events') = Len(events) - 1]_vars
    /\ [][disk' # disk => Len(events') = Len(events) + 1]_vars
    /\ [][(getRet'[Reader] # getRet[Reader] /\ root.data = DiskData)
            => /\ getRet'[Reader].h.data = DiskData[getRet'[Reader].name]
               /\ getRet'[Reader].err = NoErr <=> getRet'[Reader].h # NoHandle]_vars

\* one callback is registered, a.yml was rewritten from v1 to v2, the pass
\* invoked the callback once and the client's Get returned the new content
C12_Witness ==
    /\ RoundDone
    /\ Len(passLog) = 1
    /\ root.gen = 2
    /\ disk.files[FnA] = FileOf(OneKey("x", "v2"))
    /\ getRet[Reader].name = "x"
    /\ getRet[Reader].gen = root.gen
    /\ getRet[Reader].h.data = "v2"

(***************************************************************************)
(* Registration during a pass (checked under SpecRegister).                *)
(***************************************************************************)
\* C13: once handleReload has copied the list, a callback registered by
\* another goroutine or by a callback of the pass is appended to
\* m.reloadCallbacks only: the pass invokes the callbacks it copied and no
\* other; the copy of the next successful reload is the whole list, so the
\* late callback runs then, behind every callback registered before it.
C13_LateRegistrationNextPass ==
    /\ [](loopPc \in {"call", "done"}
            => /\ Len(snap) <= Len(reloadCallbacks)
               /\ snap = SubSeq(reloadCallbacks, 1, Len(snap))
               /\ Len(passLog) <= Len(snap)
               /\ Invoked = SubSeq(snap, 1, Len(passLog))
               /\ loopPc = "done" => Invoked = snap)
    /\ [][(loopPc \in {"call", "done"} /\ reloadCallbacks' # reloadCallbacks)
            => /\ snap' = snap \/ loopPc = "done"
               /\ Len(passLog') <= Len(snap)
               /\ \E cb \in Registrars :
                      reloadCallbacks' = Append(reloadCallbacks, cb)]_vars
    /\ [][(loopPc = "snapshot" /\ loopPc' # "snapshot")
            => snap' = reloadCallbacks]_vars

\* the pass copied the list when cbReg was its only entry, cbReg registered
\* cbOk while it ran, and the pass ended without invoking cbOk
C13_Witness ==
    /\ loopPc = "done"
    /\ snap = <<"cbReg">>
    /\ Invoked = <<"cbReg">>
    /\ reloadCallbacks = <<"cbReg", "cbOk">>

(***************************************************************************)
(* The two reload paths (checked under SpecManual).                        *)
(***************************************************************************)
\* C14 as stated: every successful reload, the watcher's or a direct call of
\* Reset(), is followed by the callback pass of handleReload.
C14_EveryReloadInvokesCallbacks ==
    [][root'.gen # root.gen => loopPc' = "snapshot"]_vars

\* C14 amended: a successful reload by the watcher's handleReload goes on to
\* the callback pass, which invokes the registered callbacks in registration
\* order; a successful direct call of Reset() swaps the tree and invokes no
\* callback.
C14_WatcherReloadInvokesCallbacks ==
    /\ [][(root'.gen # root.gen /\ loopPc' # loopPc)
            => (loopPc = "reset" /\ loopPc' = "snapshot")]_vars
    /\ [][(root'.gen # root.gen /\ loopPc' = loopPc)
            => UNCHANGED <<snap, idx, passLog, reloadCallbacks>>]_vars
    /\ [](loopPc = "done"
            => /\ Invoked = snap
               /\ snap = SubSeq(reloadCallbacks, 1, Len(snap))
               /\ \A i \in 1..Len(passLog) : passLog[i].gen > passBase)

\* a direct Reset() succeeded with two callbacks registered while the loop
\* sat in its select: no callback ran
C14_Witness ==
    /\ last = [op |-> "Reset", err |-> NoErr, same |-> FALSE]
    /\ reloadCallbacks = <<"cbOk", "cbErr">>
    /\ ObserverOpen
    /\ loopPc = "select"
    /\ events = <<>>
    /\ passLog = <<>>
    /\ reloadErr = NoErr
    /\ root.gen = 2

(***************************************************************************)
(* Properties of List (checked under SpecAccess).                          *)
(***************************************************************************)
\* the top-level names of the tree
TreeNames(rt) == {k \in Keys : rt.data[k] # NoVal}

\* the elements of a sequence
Elems(seq) == {seq[i] : i \in 1..Len(seq)}

\* strictly ascending: sorted, and no name twice
Ascending(seq) == \A i, j \in 1..Len(seq) : i < j => Less(seq[i], seq[j])

\* C15: List() returns exactly the namespace names the handle cache holds
\* (those obtained through Get since the last Reset), sorted, AllNames()
\* being the operation that returns every top-level name of the tree: the
\* names a List returned are the names the cache held when it ran.
C15_ListIsCachedNames ==
    listRet.op = "List" => Elems(listRet.names) = listRet.cached

\* C16: List() returns the top-level names of the current tree in
\* lexicographic order, each once, for every order in which the map is
\* iterated and every content of the cache: the result of a List is what
\* any later List of the same generation returns, however many Get calls
\* lie between.
C16_ListSortedAndStable ==
    /\ \A ord \in KeyOrders :
          /\ Ascending(ListNames(root, configs, ord))
          /\ Elems(ListNames(root, configs, ord)) = TreeNames(root)
    /\ (listRet.op = "List" /\ listRet.gen = root.gen)
          => \A ord \in KeyOrders : listRet.names = ListNames(root, configs, ord)

\* List returned both names before any Get, and both are cached by now
C16_Witness ==
    /\ listRet.op = "List"
    /\ listRet.gen = root.gen
    /\ listRet.cached = {}
    /\ listRet.names = <<"x", "y">>
    /\ CachedNames(configs) = {"x", "y"}

(***************************************************************************)
(* The lock discipline of the readers (checked under SpecAccess).          *)
(* Get and Reset run their accesses inside m.mu (GetFast, GetSlow,         *)
(* ResetLock, ResetBody); List and Root record whether their caller held   *)
(* it and whether a writer was inside its critical section.                *)
(***************************************************************************)
\* C17: every read of the tree by Root and List, like those of Get and
\* Reset, happens while the caller holds m.mu, so none happens while a
\* Reset holds the write lock for its swap.
C17_AccessUnderLock ==
    listRet.op # "none" => (listRet.locked /\ ~listRet.race)

(***************************************************************************)
(* Callbacks that re-enter the Manager (checked under SpecReentry).        *)
(***************************************************************************)
\* C18: handleReload has released m.mu before it calls the first callback
\* and does not take it during the pass, so a callback that calls Get,
\* Reset, OnReload, Watch or StopWatch on the Manager gets the lock and
\* returns: every pass that has started reaches its end.
C18_CallbacksOutsideLock ==
    /\ [](loopPc \in {"call", "incall", "done"} => ~Holds(mu, LoopName))
    /\ (loopPc = "call") ~> (loopPc = "done")

\* the pass called a callback that reset the Manager and one that stopped
\* the watcher, and reached its end
C18_Witness ==
    /\ loopPc = "done"
    /\ Invoked = <<"cbReset", "cbStop">>
    /\ root.gen = passBase + 2
    /\ watcherStopOnce = "done"
    /\ ~ObserverOpen

(***************************************************************************)
(* Properties of the loader (checked under SpecLoad).                      *)
(***************************************************************************)
\* the name ends in .yml or .yaml
YamlName(f) ==
    \/ Len(f) >= 4 /\ SubSeq(f, Len(f) - 3, Len(f)) = <<".", "y", "m", "l">>
    \/ Len(f) >= 5 /\ SubSeq(f, Len(f) - 4, Len(f)) = <<".", "y", "a", "m", "l">>

\* the entries of d the loader is to read: YAML names that are not directories
Sources(d) ==
    {f \in FileNames : YamlName(f) /\ d.files[f].kind \in {"file", "bad"}}

\* the top-level keys a source declares
Declares(d, f) == {k \in Keys : d.files[f].m[k] # NoVal}

\* two sources declare the same top-level key
Collides(d) ==
    \E f, g \in Sources(d) : f # g /\ Declares(d, f) \cap Declares(d, g) # {}

\* every source parses and every top-level value in it is a mapping
WellFormed(d) ==
    /\ d.dirOK
    /\ \A f \in Sources(d) :
          /\ d.files[f].kind = "file"
          /\ \A k \in Keys : d.files[f].m[k] # ScalarVal

\* the tree holding every source's keys
Merged(d) ==
    [k \in Keys |->
        IF \E f \in Sources(d) : k \in Declares(d, f)
        THEN (CHOOSE v \in Vals : \E f \in Sources(d) : d.files[f].m[k] = v)
        ELSE NoVal]

\* every source is a file that parses as YAML
AllParse(d) == d.dirOK /\ \A f \in Sources(d) : d.files[f].kind = "file"

\* C19 as stated: over a readable directory of YAML files that parse, a load
\* in which two files declare the same top-level key fails with
\* ErrDuplicateKey, and a load of files with pairwise disjoint keys succeeds
\* with the tree of all their keys.
C19_CollisionIsDuplicateKey ==
    (last.op = "NewManager" /\ AllParse(disk))
        => IF Collides(disk) THEN last.err = ErrDuplicateKey
           ELSE last.err = NoErr /\ root.data = Merged(disk)

\* C19 amended: a load over colliding files never succeeds, whichever file
\* holds which content (no last writer wins); it fails with ErrDuplicateKey
\* when every YAML file parses and every top-level value is a mapping, and
\* otherwise with ErrDuplicateKey or ErrFileRead, whichever the loader meets
\* first; well-formed files with pairwise disjoint keys load into the tree
\* of all their keys.
C19_CollisionNeverMerges ==
    last.op = "NewManager"
        => /\ Collides(disk) => last.err \in {ErrDuplicateKey, ErrFileRead, ErrDirRead}
           /\ (Collides(disk) /\ WellFormed(disk)) => last.err = ErrDuplicateKey
           /\ (~Collides(disk) /\ WellFormed(disk))
                 => (last.err = NoErr /\ root.data = Merged(disk))

\* a.yml and b.yaml both declare x with different values: ErrDuplicateKey
C19_Witness ==
    /\ last = [op |-> "NewManager", err |-> ErrDuplicateKey, same |-> FALSE]
    /\ disk.files[FnA] = FileOf(OneKey("x", "v1"))
    /\ disk.files[FnB] = FileOf([OneKey("y", ScalarVal) EXCEPT !["x"] = "v2"])
    /\ root = NoRoot

\* the directory without its subdirectories and its non-YAML entries
Stripped(d) ==
    [d EXCEPT !.files = [f \in FileNames |->
                            IF f \in Sources(d) THEN d.files[f] ELSE Absent]]

\* C20: what a load returns depends only on the direct entries that are
\* files named .yml or .yaml: subdirectories (whatever their name) and other
\* files add neither keys nor errors.  Over a readable directory without
\* such a file NewManager succeeds with an empty tree, List returns no name
\* and every Get fails with ErrNotFound.
C20_OnlyYamlFilesLoaded ==
    /\ LoadResults(disk) = LoadResults(Stripped(disk))
    /\ (last.op = "NewManager" /\ last.err = NoErr)
          => TreeNames(root) = UNION {Declares(disk, f) : f \in Sources(disk)}
    /\ (last.op = "NewManager" /\ disk.dirOK /\ Sources(disk) = {})
          => /\ last.err = NoErr
             /\ root = [gen |-> 1, data |-> EmptyMap]
             /\ listRet.op = "List" => listRet.names = <<>>
             /\ getRet[Reader].name \in Keys
                   => /\ IsNotFound(getRet[Reader].err)
                      /\ getRet[Reader].h = NoHandle

\* the directory holds a text file with a key, a subdirectory named d.yml
\* and no YAML file: the Manager was constructed, List returned nothing and
\* Get failed with ErrNotFound
C20_Witness ==
    /\ disk.files[FnC] = FileOf(OneKey("x", "v1"))
    /\ disk.files[FnD] = SubDir
    /\ Sources(disk) = {}
    /\ last = [op |-> "NewManager", err |-> NoErr, same |-> FALSE]
    /\ listRet.op = "List"
    /\ listRet.names = <<>>
    /\ getRet[Reader].name = "x"
    /\ getRet[Reader].err = ErrNotFound

\* a source that does not parse, or holds a top-level value that is no mapping
Defective(d) ==
    \E f \in Sources(d) :
        \/ d.files[f].kind = "bad"
        \/ \E k \in Keys : d.files[f].m[k] = ScalarVal

\* the Is* predicates an error satisfies
IsKinds(err) ==
    {k \in {"NotFound", "DirRead", "FileRead", "DuplicateKey"} :
        \/ k = "NotFound" /\ IsNotFound(err)
        \/ k = "DirRead" /\ IsDirRead(err)
        \/ k = "FileRead" /\ IsFileRead(err)
        \/ k = "DuplicateKey" /\ IsDuplicateKey(err)}

\* C21: NewManager returns a Manager exactly when the load returned no
\* error.  An unreadable directory gives ErrDirRead and nothing else does;
\* ErrFileRead comes only from a YAML file that does not parse or holds a
\* top-level value that is no mapping, ErrDuplicateKey only from a key two
\* files declare; a directory with any such defect never loads, and with
\* one kind of defect only it fails with that kind's error.  Each error
\* satisfies its own Is* predicate and no other.
C21_NewManagerFailsFast ==
    last.op = "NewManager"
        => /\ last.err # NoErr <=> root = NoRoot
           /\ last.err \in {NoErr, ErrDirRead, ErrFileRead, ErrDuplicateKey}
           /\ last.err = ErrDirRead <=> ~disk.dirOK
           /\ last.err = ErrFileRead => Defective(disk)
           /\ last.err = ErrDuplicateKey => Collides(disk)
           /\ (disk.dirOK /\ (Defective(disk) \/ Collides(disk)))
                 => last.err \in {ErrFileRead, ErrDuplicateKey}
           /\ (disk.dirOK /\ Defective(disk) /\ ~Collides(disk))
                 => last.err = ErrFileRead
           /\ (disk.dirOK /\ Collides(disk) /\ ~Defective(disk))
                 => last.err = ErrDuplicateKey
           /\ last.err = ErrDirRead => IsKinds(last.err) = {"DirRead"}
           /\ last.err = ErrFileRead => IsKinds(last.err) = {"FileRead"}
           /\ last.err = ErrDuplicateKey => IsKinds(last.err) = {"DuplicateKey"}
           /\ last.err = NoErr => IsKinds(last.err) = {}

\* the directory cannot be listed: NewManager returned ErrDirRead and no
\* Manager
C21_Witness ==
    /\ ~disk.dirOK
    /\ last = [op |-> "NewManager", err |-> ErrDirRead, same |-> FALSE]
    /\ root = NoRoot
    /\ IsDirRead(last.err)
    /\ ~IsFileRead(last.err)

\* C22: loading an unchanged directory again (NewManager then Reset, or
\* Reset then Reset) succeeds and gives a tree with the same namespace
\* names and the same content under every namespace
C22_ReloadIsIdempotent ==
    [][(disk' = disk /\ Constructed /\ last'.op = "Reset"
          /\ (root' # root \/ last' # last)
          /\ last.op \in {"NewManager", "Reset"} /\ last.err = NoErr)
        => /\ last'.err = NoErr
           /\ root'.gen = root.gen + 1
           /\ TreeNames(root') = TreeNames(root)
           /\ \A k \in Keys : root'.data[k] = root.data[k]]_vars

\* NewManager and two Resets loaded a directory with two namespaces
C22_Witness ==
    /\ last.op = "Reset"
    /\ last.err = NoErr
    /\ root.gen = 3
    /\ TreeNames(root) = {"x", "y"}
    /\ root.data = Merged(disk)

\* C23: MustGet is Get and nothing more: it returns the handle its Get
\* returned when that Get succeeded, it panics with that Get's error when
\* the Get failed, and apart from the Get it changes neither tree nor cache
C23_MustGetWrapsGet ==
    /\ [](\A p \in Procs :
            /\ must[p].pc \in {"done", "panicked"} => must[p].of.name = must[p].name
            /\ must[p].pc = "done"
                  => /\ must[p].of.err = NoErr
                     /\ must[p].panic = NoErr
                     /\ must[p].v = must[p].of.h
                     /\ must[p].v # NoHandle
                     /\ must[p].of.gen = root.gen => configs[must[p].name] = must[p].v
            /\ must[p].pc = "panicked"
                  => /\ must[p].of.err # NoErr
                     /\ must[p].panic = must[p].of.err
                     /\ must[p].v = NoHandle
                     /\ panicked
            /\ (must[p].of # NoResult /\ must[p].of.err # NoErr) => must[p].pc = "panicked")
    /\ [][(\E p \in Procs : must'[p] # must[p] /\ must[p].pc = "get")
            => UNCHANGED <<root, configs, built>>]_vars

\* one client's MustGet returned the cached handle of "x"; the other's
\* panicked with the not-found error of "y"
C23_Witness ==
    \E p, q \in Procs :
        /\ must[p].pc = "done"
        /\ must[p].name = "x"
        /\ must[p].v = configs["x"]
        /\ must[q].pc = "panicked"
        /\ must[q].name = "y"
        /\ IsNotFound(must[q].panic)

\* an event the loop is to drop: neither a create nor a write, or a path
\* that does not end in .yml or .yaml
Ignored(ev) ==
    \/ "Create" \notin ev.op /\ "Write" \notin ev.op
    \/ ~YamlName(ev.name)

\* C24: when the loop takes an event that is not a create or write, or
\* whose path does not end in .yml/.yaml (the deletion of a YAML file
\* included), it starts no reload and no callback pass and leaves the
\* tree and the cache as they are
C24_OtherEventsIgnored ==
    [][(loopPc = "select" /\ events # <<>> /\ events' = Tail(events)
          /\ Ignored(Head(events)))
        => /\ loopPc' = "select"
           /\ UNCHANGED <<root, configs, built, last, reloadErr>>
           /\ UNCHANGED <<snap, idx, passLog, passBase, passRegs>>]_vars

\* the watched YAML file was deleted and the event taken: the tree is still
\* the first one, with the file's namespace, and no callback has run
C24_Witness ==
    /\ ObserverOpen
    /\ loopPc = "select"
    /\ events = <<>>
    /\ disk.files[FnA].kind = "absent"
    /\ root.gen = 1
    /\ root.data["x"] # NoVal
    /\ reloadCallbacks # <<>>
    /\ passLog = <<>>

\* C25: in package config and in package log, Default() is nil until an
\* Init has run; once an Init has set the default Manager no later Init,
\* from the same or another goroutine, replaces it, and at most one
\* Manager is ever built
C25_DefaultSetOnce ==
    /\ [](\A pkg \in Pkgs :
            /\ defaultManagerOnce[pkg] = "fresh" => defaultManager[pkg] = NilManager
            /\ made[pkg] <= 1
            /\ defaultManager[pkg] # NilManager
                  => /\ defaultManager[pkg].id = 1
                     /\ defaultManagerOnce[pkg] = "done"
                     /\ NoErr \in NewManagerErrs(pkg, defaultManager[pkg].arg))
    /\ [](\A p \in Procs :
            /\ defRet[p].once = "fresh" => defRet[p].m = NilManager
            /\ (initRet[p] # NoInit /\ initRet[p].panic = NoErr /\ initPc[p] = NoInit)
                  => defaultManagerOnce[initRet[p].pkg] = "done")
    /\ [][\A pkg \in Pkgs :
            defaultManager[pkg] # NilManager
                => defaultManager'[pkg] = defaultManager[pkg]]_vars

\* config.Init("a") built the default Manager; another goroutine's later
\* Init("b") ran nothing, and its Default() still returns the Manager of "a"
C25_Witness ==
    \E p, q \in Procs :
        /\ p # q
        /\ defaultManager["config"] = [id |-> 1, arg |-> "a"]
        /\ initRet[p] = [pkg |-> "config", arg |-> "a", ran |-> TRUE, panic |-> NoErr]
        /\ initRet[q] = [pkg |-> "config", arg |-> "b", ran |-> FALSE, panic |-> NoErr]
        /\ defRet[q] = [pkg |-> "config", m |-> defaultManager["config"], once |-> "done"]
        /\ defaultManager["log"] = NilManager
        /\ defaultManagerOnce["log"] = "done"

(***************************************************************************)
(* Properties of Drugo's life cycle (checked under SpecLife).              *)
(***************************************************************************)
\* every call of the log returned nil
AllNil(log) == \A j \in 1..Len(log) : log[j].err = Nil

\* the first error of the log in the order of the returns, nil without one
FirstNonNil(log) ==
    IF AllNil(log) THEN Nil
    ELSE log[CHOOSE j \in 1..Len(log) :
                 /\ log[j].err # Nil
                 /\ \A k \in 1..(j - 1) : log[k].err = Nil].err

\* no registered service implements Runner
NoRunner == \A i \in 1..Len(services) : ~services[i].runner

\* C26: Boot calls the services' Boot one after the other in registration
\* order; the first error ends it at once, is what Boot returns, and no
\* later service is booted; with every Boot succeeding, or no service at
\* all, Boot returns nil
C26_BootInOrderUntilError ==
    /\ \A j \in 1..Len(bootLog) : bootLog[j].svc = j
    /\ \A j \in 1..(Len(bootLog) - 1) : bootLog[j].err = Nil
    /\ Len(bootLog) <= Len(services)
    /\ (bootLog # <<>> /\ bootLog[Len(bootLog)].err # Nil)
          => bootRet = bootLog[Len(bootLog)].err
    /\ bootRet \notin {NoReturn, Nil}
          => /\ bootLog # <<>>
             /\ bootLog[Len(bootLog)].err = bootRet
    /\ bootRet = Nil
          => /\ Len(bootLog) = Len(services)
             /\ AllNil(bootLog)

\* Boot of two services returned the first one's error without booting
\* the second
C26_Witness ==
    /\ Len(services) = 2
    /\ mainPc = "idle"
    /\ bootLog = <<[svc |-> 1, err |-> ErrOf(1)]>>
    /\ bootRet = ErrOf(1)

\* C27: Shutdown calls Close on the services in reverse registration order,
\* once each, goes on after a Close error, and returns nil
C27_ShutdownClosesAllInReverse ==
    /\ Len(closeLog) <= Len(services)
    /\ \A j \in 1..Len(closeLog) : closeLog[j].svc = Len(services) - j + 1
    /\ shutRet # NoReturn
          => /\ shutRet = Nil
             /\ Len(closeLog) = Len(services)

\* Shutdown of two services: the second one's Close failed, the first was
\* closed all the same, and Shutdown returned nil
C27_Witness ==
    /\ mainPc = "idle"
    /\ closeLog = <<[svc |-> 2, err |-> ErrOf(2)], [svc |-> 1, err |-> Nil]>>
    /\ shutRet = Nil

\* C28: Run starts a goroutine for each service that is a Runner and for no
\* other; it returns only when all of them have returned, with the first
\* error any of them returned (nil without one); that error cancels the
\* context the Runners share; without a Runner nothing is waited for
C28_RunWaitsForRunners ==
    /\ \A i \in 1..Len(services) : runners[i] # "none" => services[i].runner
    /\ runPc \in {"wait", "done"}
          => \A i \in 1..Len(services) : services[i].runner => runners[i] # "none"
    /\ runPc = "done"
          => /\ \A i \in 1..Len(services) : runners[i] # "running"
             /\ runRet = FirstNonNil(runLog)
    /\ groupErr = FirstNonNil(runLog)
    /\ groupErr # Nil => groupCancelled
    /\ NoRunner
          => /\ runLog = <<>>
             /\ runRet \in {NoReturn, Nil}
             /\ \A i \in 1..Len(services) : runners[i] = "none"

\* Run over two Runners: the second failed first, then the first failed;
\* Run returned the second's error
C28_Witness ==
    /\ runPc = "done"
    /\ runLog = <<[svc |-> 2, err |-> ErrOf(2)], [svc |-> 1, err |-> ErrOf(1)]>>
    /\ runRet = ErrOf(2)
    /\ groupCancelled

\* C29: inside Serve, Run is entered (and so any Runner started) only after
\* Boot has booted every service without an error, and Shutdown is entered
\* only after Serve has received Run's result or a termination signal; with
\* no Runner Serve still shuts every service down and returns nil
C29_ServePhasesInOrder ==
    servePc # "none"
        => /\ runPc # "idle"
                 => /\ bootRet = Nil
                    /\ Len(bootLog) = Len(services)
                    /\ AllNil(bootLog)
           /\ servePc = "boot" => (runPc = "idle" /\ closeLog = <<>>)
           /\ servePc = "select" => (closeLog = <<>> /\ shutRet = NoReturn /\ took = "none")
           /\ (servePc = "shutdown" \/ closeLog # <<>>)
                 => /\ took \in {"run", "signal"}
                    /\ took = "run" => runPc = "done"
                    /\ took = "signal" => sigOrder # "none"
           /\ (servePc = "returned" /\ bootRet # Nil)
                 => (runPc = "idle" /\ closeLog = <<>>)
           /\ (servePc = "returned" /\ bootRet = Nil /\ NoRunner)
                 => /\ serveRet = Nil
                    /\ Len(closeLog) = Len(services)

\* Serve booted both services, started a Runner, received a signal and is
\* shutting down while the Runner is still running
C29_Witness ==
    /\ servePc = "shutdown"
    /\ Len(services) = 2
    /\ AllNil(bootLog) /\ Len(bootLog) = 2
    /\ took = "signal"
    /\ \E i \in 1..Len(services) : runners[i] = "running"
    /\ closeLog # <<>>

\* C30 as stated: Serve returns Boot's error; otherwise it shuts down and
\* returns what Run returned, nil if the signal arrived before Run returned
C30_ServeReturnsRunError ==
    servePc = "returned"
        => IF bootRet # Nil THEN serveRet = bootRet
           ELSE /\ Len(closeLog) = Len(services)
                /\ serveRet = IF sigOrder = "beforeRun" THEN Nil ELSE runRet

\* C30: Serve returns Boot's error without running or shutting down;
\* otherwise it shuts every service down, whatever Close returns, and
\* returns Run's error if its select took Run's result and nil if it took
\* the signal; only without a signal is Run's result sure to be taken
C30_ServeReturnsWhatSelectTook ==
    servePc = "returned"
        => IF bootRet # Nil
           THEN /\ serveRet = bootRet
                /\ closeLog = <<>>
                /\ runPc = "idle"
           ELSE /\ shutRet = Nil
                /\ Len(closeLog) = Len(services)
                /\ took \in {"run", "signal"}
                /\ took = "run" => (runRet # NoReturn /\ serveRet = runRet)
                /\ took = "signal" => (sigOrder # "none" /\ serveRet = Nil)
                /\ sigOrder = "none" => took = "run"

\* Run had returned an error when the signal came, the select took the
\* signal, a Close failed, and Serve returned nil
C30_Witness ==
    /\ servePc = "returned"
    /\ bootRet = Nil
    /\ runRet = ErrOf(1)
    /\ sigOrder = "afterRun"
    /\ took = "signal"
    /\ \E j \in 1..Len(closeLog) : closeLog[j].err # Nil
    /\ serveRet = Nil

(***************************************************************************)
(* Properties of the container (checked under SpecContainer).              *)
(***************************************************************************)
\* the Bind calls a read came after
Seen == SubSeq(bindLog, 1, got.at)

\* the names of a run of Bind calls, each at the place of its first Bind
RECURSIVE FirstBinds(_)
FirstBinds(log) ==
    IF log = <<>> THEN <<>>
    ELSE LET rest == FirstBinds(SubSeq(log, 1, Len(log) - 1))
             n == log[Len(log)].name
         IN  IF \E i \in 1..Len(rest) : rest[i] = n THEN rest
             ELSE Append(rest, n)

\* the instance of the last Bind of name in a run of Bind calls
LastBound(log, name) ==
    LET is == {i \in 1..Len(log) : log[i].name = name}
    IN  IF is = {} THEN NilService
        ELSE log[CHOOSE i \in is : \A j \in is : j <= i].service

ServicesOf(log) ==
    [i \in 1..Len(FirstBinds(log)) |-> LastBound(log, FirstBinds(log)[i])]

\* C31: Names() and Services() list the bound services in the order of each
\* name's first Bind, in slices of their own (a caller's write into one
\* leaves the container as it was); a Bind of a bound name replaces the
\* instance Get and Services return, at the same place, with the order and
\* the length unchanged; Get of a name never bound returns the zero value
\* and an error that is ErrServiceNotFound.
C31_ContainerKeepsFirstBindOrder ==
    /\ containerMu = "free" =>
           /\ servicesIds = FirstBinds(bindLog)
           /\ \A n \in SvcNames :
                  Lookup(servicesMap, n).svc = LastBound(bindLog, n)
    /\ got.op = "Names" /\ ~got.dirty => got.elems = FirstBinds(Seen)
    /\ got.op = "Services" /\ ~got.dirty => got.elems = ServicesOf(Seen)
    /\ got.op = "Get" =>
           IF \E i \in 1..Len(Seen) : Seen[i].name = got.name
           THEN got.elems = <<LastBound(Seen, got.name)>> /\ got.err = NilError
           ELSE got.elems = <<NilService>> /\ IsServiceNotFound(got.err)

\* Services() after the first of two names was bound again to another
\* instance, and the caller then wrote into the slice
C31_Witness ==
    /\ got.op = "Services"
    /\ got.dirty
    /\ Len(got.elems) = 2
    /\ got.at = 3
    /\ Seen[1].name = Seen[3].name
    /\ Seen[1].service # Seen[3].service
    /\ containerMu = "free"

NoDup(seq) == \A i, j \in 1..Len(seq) : seq[i] = seq[j] => i = j
MapKeys == {n \in SvcNames : Lookup(servicesMap, n).ok}
BindNames == [i \in 1..Len(bindLog) |-> bindLog[i].name]

\* C39: whenever no Bind is inside its critical section, and so whenever a
\* reader looks, servicesIds holds each bound name exactly once and its names
\* are the keys of the services map; Binds of N distinct names leave N
\* entries in both.
C39_OrderListMatchesMap ==
    /\ containerMu = "free" =>
           /\ NoDup(servicesIds)
           /\ Elems(servicesIds) = MapKeys
           /\ Elems(servicesIds) = Elems(BindNames)
           /\ NoDup(BindNames) =>
                  /\ Len(servicesIds) = Len(bindLog)
                  /\ Cardinality(MapKeys) = Len(bindLog)
    /\ got.op = "Names" /\ ~got.dirty =>
           NoDup(got.elems) /\ Elems(got.elems) = Elems(SubSeq(BindNames, 1, got.at))
    /\ got.op = "Services" /\ ~got.dirty =>
           /\ Len(got.elems) = Cardinality(Elems(SubSeq(BindNames, 1, got.at)))
           /\ NilService \notin Elems(got.elems)

\* three Binds by two goroutines, one name bound twice, and Names() read
\* after them
C39_Witness ==
    /\ Len(bindLog) = 3
    /\ ~NoDup(BindNames)
    /\ containerMu = "free"
    /\ got.op = "Names"
    /\ got.at = 3

(***************************************************************************)
(* Properties of the log Manager (checked under SpecLog).                  *)
(***************************************************************************)
\* a Get of goroutine p that has returned, for a name that is not empty
Logged(p) == logRet[p].name \in BizNames \ {""}

\* C32: Get of a name that is not empty returns a logger and no error; two
\* Gets of one name, sequential or concurrent, return the same logger when no
\* Close or Remove evicted the name between their reads of the cache, and
\* different loggers when one did; the cache holds the logger the Gets since
\* the last eviction returned.  Get("") returns nil and ErrEmptyBizName and
\* the cache never holds the empty name.
C32_GetReturnsCachedLogger ==
    /\ \A p \in Procs : Logged(p) =>
           /\ logRet[p].logger # NilLogger
           /\ logRet[p].err = "nil"
           /\ logRet[p].epoch = evicted[logRet[p].name] =>
                  loggers[logRet[p].name] = logRet[p].logger
    /\ \A p, q \in Procs :
           Logged(p) /\ Logged(q) /\ logRet[p].name = logRet[q].name =>
               (logRet[p].epoch = logRet[q].epoch
                    <=> logRet[p].logger = logRet[q].logger)
    /\ \A p \in Procs : logRet[p].name = "" =>
           logRet[p].logger = NilLogger /\ logRet[p].err = "ErrEmptyBizName"
    /\ ~Cached(loggers, "")

\* two goroutines got the same name, one before and one after an eviction,
\* and the later one had missed in its read-locked check
C32_Witness ==
    /\ Logged("p1") /\ Logged("p2")
    /\ logRet["p1"].name = logRet["p2"].name
    /\ logRet["p1"].epoch < logRet["p2"].epoch
    /\ logRet["p2"].logger = loggers[logRet["p2"].name]
    /\ logLast = "nil"

(***************************************************************************)
(* Properties of the route registry (checked under SpecRouter).            *)
(***************************************************************************)
\* s is the first Len(s) elements of t
IsPrefix(s, t) == Len(s) <= Len(t) /\ s = SubSeq(t, 1, Len(s))

\* C33: the pass of a Setup call invokes the functions of the copy it took
\* under the mutex, each once and in registration order: every function
\* registered before the call is among them, a function registered after
\* the copy (by another goroutine or from inside a running function) is
\* not, and stays in r.fs for the next Setup, which copies the whole list
\* again.
C33_SetupRunsItsSnapshot ==
    \A p \in Procs : setups[p].pc \in {"running", "done"} =>
        /\ setups[p].base <= Len(setups[p].fs)
        /\ IsPrefix(setups[p].fs, registryFs)
        /\ Len(setups[p].ran) <= Len(setups[p].fs)
        /\ setups[p].ran = [i \in 1..Len(setups[p].ran) |-> i]
        /\ setups[p].pc = "done" => Len(setups[p].ran) = Len(setups[p].fs)

\* one Setup finished a pass during which one of its functions registered
\* another, and a later Setup ran that one too
C33_Witness ==
    /\ setups["p1"].pc = "done"
    /\ setups["p1"].fs = <<"registers">>
    /\ setups["p2"].pc = "done"
    /\ setups["p2"].base = 2
    /\ setups["p2"].ran = <<1, 2>>

(***************************************************************************)
(* The cache and the tree under Get, Reset and the watcher's reloads       *)
(* (checked under SpecSwap).                                               *)
(***************************************************************************)
\* the handle h is the subtree of the current tree under the key k
OfCurrentTree(h, k) ==
    /\ h.gen = root.gen
    /\ h.name = k
    /\ root.data[k] # NoVal
    /\ h.data = root.data[k]

\* C34: in every state outside Reset's critical section each cache entry
\* was built from the current tree and sits under a top-level key of it;
\* what a Get read, in any interleaving with Reset and the watcher's
\* reloads, is a handle of the tree that was current when it read (never an
\* entry of a replaced tree next to the new tree) or ErrNotFound for a key
\* that tree does not have.
C34_CacheBuiltFromCurrentTree ==
    /\ mu.writer = "none" =>
           \A k \in Keys : CacheHit(configs, k) => OfCurrentTree(configs[k], k)
    /\ \A p \in Procs : getRet[p].name \in Keys =>
           /\ getRet[p].h # NoHandle =>
                  /\ getRet[p].err = NoErr
                  /\ getRet[p].h.gen = getRet[p].gen
                  /\ getRet[p].h.name = getRet[p].name
           /\ getRet[p].gen = root.gen =>
                  IF root.data[getRet[p].name] = NoVal
                  THEN getRet[p].h = NoHandle /\ IsNotFound(getRet[p].err)
                  ELSE OfCurrentTree(getRet[p].h, getRet[p].name)

\* after a reload by the watcher and a Reset by a client, a Get filled the
\* cache from the current tree with a key the first tree did not have
C34_Witness ==
    /\ root.gen = 3
    /\ last.op = "Reset" /\ last.err = NoErr
    /\ loops = 1
    /\ reloadErr = NoErr
    /\ CacheHit(configs, "y")
    /\ getRet[Reader].name = "y"
    /\ getRet[Reader].gen = root.gen
    /\ getRet[Reader].h = configs["y"]

(***************************************************************************)
(* The watcher's reloads, one at a time (checked under SpecSerial).        *)
(***************************************************************************)
\* C35: at most one watchLoop goroutine is ever started, and it handles one
\* event at a time: while it waits in the select or is about to Reset for an
\* event, no callback pass is open; through a whole pass the tree is the one
\* that pass's Reset installed (no Reset for a later event has begun), the
\* callbacks invoked are the copied list's in order, and the pass ends only
\* when every one of them has returned.
C35_ReloadsOneAtATime ==
    /\ loops <= 1
    /\ loopPc \in {"none", "select", "reset", "snapshot", "exited"} =>
           snap = <<>> /\ passLog = <<>> /\ idx = 0
    /\ loopPc \in {"call", "done"} =>
           /\ Len(passLog) = idx - 1
           /\ Len(passLog) <= Len(snap)
           /\ \A i \in 1..Len(passLog) :
                  /\ passLog[i].cb = snap[i]
                  /\ passLog[i].gen = root.gen
           /\ root.gen = passBase + 1
    /\ loopPc = "done" => Len(passLog) = Len(snap)

\* the second pass is between its two callbacks while the next file event
\* already waits in the queue
C35_Witness ==
    /\ loopPc = "call"
    /\ root.gen = 3
    /\ Len(snap) = 2
    /\ Len(passLog) = 1
    /\ events # <<>>

(***************************************************************************)
(* Copy on reload (checked under SpecHeap).                                *)
(***************************************************************************)
\* C36: a Reset leaves the tree it replaces and the handles taken from it
\* as they were: every handle a Get returned and every tree Root returned
\* exposes now what it exposed when it was obtained, however many Resets
\* followed; the Manager's tree is the one the last successful Reset
\* loaded, and a Get that returned since then exposes that tree's content.
C36_ResetReplacesNeverMutates ==
    /\ RootView(root.gen) = root.data
    /\ \A p \in Procs : getRet[p].h # NoHandle =>
           /\ HandleView(getRet[p].h) = getRet[p].h.data
           /\ getRet[p].gen = root.gen =>
                  HandleView(getRet[p].h) = root.data[getRet[p].name]
    /\ kept # NoTree => RootView(kept.gen) = kept.data
    /\ kept.gen = root.gen => kept.data = root.data

\* a handle of the first tree and the second tree itself are still held
\* after two Resets that changed the content they were taken from
C36_Witness ==
    /\ root.gen = 3
    /\ getRet["p1"].h # NoHandle
    /\ getRet["p1"].h.gen = 1
    /\ getRet["p1"].h.data # root.data[getRet["p1"].name]
    /\ kept.gen = 2
    /\ kept.data # root.data
    /\ last.err = NoErr

(***************************************************************************)
(* Serve and the services it booted (checked under SpecLife).              *)
(***************************************************************************)
\* C37: when Serve has returned, every service whose Boot returned nil
\* during that Serve has had its Close called.
C37_BootedServicesClosed ==
    servePc = "returned" =>
        \A i \in 1..Len(bootLog) : bootLog[i].err = Nil =>
            \E j \in 1..Len(closeLog) : closeLog[j].svc = bootLog[i].svc

(***************************************************************************)
(* Init after a failed Init (checked under SpecDefault).                   *)
(***************************************************************************)
\* C38: once a config.Init call has returned normally (without a panic),
\* the default Manager is set, so every later Default() returns it and not
\* nil, also when an earlier Init panicked and the panic was recovered.
C38_InitReturnImpliesDefault ==
    \A p \in Procs :
        (/\ initPc[p] = NoInit
         /\ initRet[p] # NoInit
         /\ initRet[p].pkg = "config"
         /\ initRet[p].panic = NoErr)
            => defaultManager["config"] # NilManager


====
